---- MODULE Spec2Model ----
(***************************************************************************)
(* Model of the ZTBus bulk loader (src/main.go): the per-trip registration *)
(* transaction, createTelemetryBatches, the telemetryWorker pool with its  *)
(* jobs/results channels and WaitGroup, the result collector of runCLI and *)
(* the final partition-maintenance call.                                   *)
(***************************************************************************)
EXTENDS Integers, Sequences, FiniteSets, Bags, TLC

(***************************************************************************)
(* Configuration of src/main.go:22-26 and :396, scaled down so that the    *)
(* interleavings of the pool can be enumerated (the source values are      *)
(* BatchSize = 5000, WorkerCount = 10, BufferSize = 50, MaxConns = 15).    *)
(* The model keeps MaxConns >= WorkerCount + 2 as the source does.         *)
(***************************************************************************)
BatchSize == 2
WorkerCount == 2
BufferSize == 1
MaxConns == 4

\* Bounds of the inputs: trips per metadata file, rows per telemetry file.
MaxTrips == 2
MaxSamples == 3
\* Bound of the environment: storage operations that fail in one run.
MaxFaults == 2
\* Bound of the inputs createTelemetryBatches is applied to on its own.
MaxRows == 7

TripNames == {"T1", "T2"}
BusNumbers == {"B1", "B2"}
RouteCodes == {"R1", "R2"}

Workers == 1..WorkerCount
Conns == 1..MaxConns

\* Owners of a pooled connection.
Free == 0
MainOwner == -1
MaintOwner == -2

Min(a, b) == IF a < b THEN a ELSE b

(***************************************************************************)
(* Input records.  A TripTelemetry row keeps its timestamp and one of the  *)
(* optional (pointer) fields; "nil" is the nil pointer parseOptionalFloat  *)
(* returns for an empty cell.                                              *)
(***************************************************************************)
Nil == "nil"

TripTelemetry(t, absent) ==
    [TimeUnix |-> t, GnssAltitude |-> IF absent THEN Nil ELSE "alt"]

\* The rows ParseTripTelemetryCSV yields for a file of n rows whose row
\* number absentAt (0: none) has an empty gnss_altitude cell.
TelemetryFile(n, absentAt) == [i \in 1..n |-> TripTelemetry(i, i = absentAt)]

(***************************************************************************)
(* The optional cells of a telemetry row (src/data.go:55-76, 192-226).  A  *)
(* cell is a text, a sequence of characters; the characters considered are *)
(* two digits, the sign, the decimal point, the exponent mark and a letter *)
(* no numeral holds.  A pointer is NilPtr or Ptr(v).                       *)
(***************************************************************************)
MaxText == 5
Alphabet == {"0", "9", "-", ".", "e", "a"}
Texts == UNION {[1..n -> Alphabet] : n \in 0..MaxText}

NilPtr == <<>>
Ptr(v) == <<v>>

DigitChars == <<"0", "1", "2", "3", "4", "5", "6", "7", "8", "9">>
IsDigit(c) == \E d \in 1..10 : DigitChars[d] = c
DigitVal(c) == (CHOOSE d \in 1..10 : DigitChars[d] = c) - 1
AllDigits(s) == \A i \in 1..Len(s) : IsDigit(s[i])

RECURSIVE DecVal(_)
DecVal(s) ==
    IF s = <<>> THEN 0
    ELSE 10 * DecVal(SubSeq(s, 1, Len(s) - 1)) + DigitVal(s[Len(s)])

Negative(s) == s /= <<>> /\ s[1] = "-"
Unsigned(s) == IF s /= <<>> /\ s[1] \in {"+", "-"} THEN Tail(s) ELSE s

\* The first position of s holding a character of cs, Len(s) + 1 if none.
First(s, cs) ==
    IF \E i \in 1..Len(s) : s[i] \in cs
    THEN CHOOSE i \in 1..Len(s) : s[i] \in cs /\ \A j \in 1..(i - 1) : s[j] \notin cs
    ELSE Len(s) + 1

\* strconv.Atoi: the value and the error ("nil": none).  An optional sign
\* and at least one decimal digit, nothing else; on a syntax error the value
\* is 0.  A text of at most MaxText digits is far inside the 64 bits of int.
Atoi(s) ==
    LET digits == Unsigned(s)
    IN  IF digits = <<>> \/ ~AllDigits(digits) THEN <<0, "ErrSyntax">>
        ELSE <<IF Negative(s) THEN 0 - DecVal(digits) ELSE DecVal(digits), "nil">>

\* A float64 as the decimal it is nearest to: zero, infinite, or
\* mant * 10^exp with mant not a multiple of 10.
Zero(neg) == [class |-> "zero", neg |-> neg, mant |-> 0, exp |-> 0]
Inf(neg) == [class |-> "inf", neg |-> neg, mant |-> 0, exp |-> 0]

RECURSIVE Finite(_, _, _)
Finite(neg, mant, exp) ==
    IF mant % 10 = 0 THEN Finite(neg, mant \div 10, exp + 1)
    ELSE [class |-> "finite", neg |-> neg, mant |-> mant, exp |-> exp]

RECURSIVE NumDigits(_)
NumDigits(n) == IF n < 10 THEN 1 ELSE 1 + NumDigits(n \div 10)

\* The float64 nearest to mant * 10^exp, mant > 0: above the largest float64
\* (about 1.8e308) the result is infinite with ErrRange, below the smallest
\* (about 4.9e-324) it is zero without error.  The exponents a text over
\* Alphabet can hold are below 100 or above 899, far from both limits.
Round(neg, mant, exp) ==
    LET order == NumDigits(mant) + exp - 1
    IN  IF order > 308 THEN <<Inf(neg), "ErrRange">>
        ELSE IF order < -324 THEN <<Zero(neg), "nil">>
        ELSE <<Finite(neg, mant, exp), "nil">>

\* strconv.ParseFloat(s, 64) on decimal texts: an optional sign, digits with
\* at most one point and at least one digit, then optionally the exponent
\* mark, an optional sign and at least one digit.  On a syntax error the
\* value is 0.
ParseFloat(s) ==
    LET body == Unsigned(s)
        e == First(body, {"e", "E"})
        mantissa == SubSeq(body, 1, e - 1)
        dot == First(mantissa, {"."})
        intPart == SubSeq(mantissa, 1, dot - 1)
        fracPart == SubSeq(mantissa, dot + 1, Len(mantissa))
        digits == intPart \o fracPart
        hasExp == e <= Len(body)
        expText == SubSeq(body, e + 1, Len(body))
        expDigits == Unsigned(expText)
        wellFormed == /\ digits /= <<>> /\ AllDigits(digits)
                      /\ hasExp => (expDigits /= <<>> /\ AllDigits(expDigits))
        expVal == IF ~hasExp THEN 0
                  ELSE IF Negative(expText) THEN 0 - DecVal(expDigits)
                  ELSE DecVal(expDigits)
    IN  IF ~wellFormed THEN <<Zero(FALSE), "ErrSyntax">>
        ELSE IF DecVal(digits) = 0 THEN <<Zero(Negative(s)), "nil">>
        ELSE Round(Negative(s), DecVal(digits), expVal - Len(fracPart))

\* Faulty variant: a text that does not parse is treated as an empty cell.
parseOptionalFloatNilOnError(s) ==
    IF s = <<>> \/ ParseFloat(s)[2] /= "nil" THEN <<NilPtr, "nil">>
    ELSE <<Ptr(ParseFloat(s)[1]), "nil">>

\* The three optional parsers return the pointer and the error.
parseOptionalFloat(s) ==
    IF s = <<>> THEN <<NilPtr, "nil">>
    ELSE <<Ptr(ParseFloat(s)[1]), ParseFloat(s)[2]>>

parseOptionalInt(s) ==
    IF s = <<>> THEN <<NilPtr, "nil">>
    ELSE <<Ptr(Atoi(s)[1]), Atoi(s)[2]>>

parseOptionalString(s) ==
    IF s = <<>> THEN <<NilPtr, "nil">>
    ELSE <<Ptr(s), "nil">>

\* must keeps the value and drops the error.
must(r) == r[1]

NoOptional == [GnssAltitude |-> NilPtr, ItcsNumberOfPassengers |-> NilPtr,
               ItcsStopName |-> NilPtr]

\* The metadata records the i-th line of metaData.csv may hold.  Bus
\* numbers and route codes are interchangeable, so the first record's are
\* fixed; a later record is on another bus of the same route or on the same
\* bus on another route.
Metadata(i) ==
    IF i = 1
    THEN [Name : TripNames, BusNumber : {"B1"}, BusRoute : {"R1"}]
    ELSE {r \in [Name : TripNames, BusNumber : BusNumbers, BusRoute : RouteCodes] :
             (r.BusNumber = "B1") /= (r.BusRoute = "R1")}

(***************************************************************************)
(* createTelemetryBatches (src/main.go:337-355).  Go slices are 0-based    *)
(* and half-open: telemetryData[i:end] is SubSeq(data, i + 1, end).        *)
(***************************************************************************)
TelemetryBatch(tripID, records, batchID, totalBatches) ==
    [TripID |-> tripID, Records |-> records,
     BatchID |-> batchID, TotalBatches |-> totalBatches]

RECURSIVE BatchLoop(_, _, _, _, _)
BatchLoop(tripID, telemetryData, totalBatches, i, batches) ==
    IF i < Len(telemetryData)
    THEN LET end == Min(i + BatchSize, Len(telemetryData))
             batch == TelemetryBatch(tripID, SubSeq(telemetryData, i + 1, end),
                                     (i \div BatchSize) + 1, totalBatches)
         IN BatchLoop(tripID, telemetryData, totalBatches, i + BatchSize,
                      Append(batches, batch))
    ELSE batches

\* Faulty variant: the slice starts one row late (telemetryData[i+1:end]).
RECURSIVE BatchLoopSkipFirst(_, _, _, _, _)
BatchLoopSkipFirst(tripID, telemetryData, totalBatches, i, batches) ==
    IF i < Len(telemetryData)
    THEN LET end == Min(i + BatchSize, Len(telemetryData))
             batch == TelemetryBatch(tripID, SubSeq(telemetryData, i + 2, end),
                                     (i \div BatchSize) + 1, totalBatches)
         IN BatchLoopSkipFirst(tripID, telemetryData, totalBatches, i + BatchSize,
                               Append(batches, batch))
    ELSE batches

createTelemetryBatchesSkipFirst(tripID, telemetryData) ==
    BatchLoopSkipFirst(tripID, telemetryData,
                       (Len(telemetryData) + BatchSize - 1) \div BatchSize, 0, <<>>)

\* Faulty variant: a trailing partial chunk is merged into the chunk before it
\* (the loop stops as soon as fewer than BatchSize rows would remain).
RECURSIVE BatchLoopMergeTail(_, _, _, _, _)
BatchLoopMergeTail(tripID, telemetryData, totalBatches, i, batches) ==
    IF i < Len(telemetryData)
    THEN LET last == i + 2 * BatchSize > Len(telemetryData)
             end == IF last THEN Len(telemetryData) ELSE i + BatchSize
             batch == TelemetryBatch(tripID, SubSeq(telemetryData, i + 1, end),
                                     (i \div BatchSize) + 1, totalBatches)
         IN BatchLoopMergeTail(tripID, telemetryData, totalBatches, end,
                               Append(batches, batch))
    ELSE batches

createTelemetryBatchesMergeTail(tripID, telemetryData) ==
    BatchLoopMergeTail(tripID, telemetryData,
                       (Len(telemetryData) + BatchSize - 1) \div BatchSize, 0, <<>>)

\* Faulty variant: totalBatches by floor division (the ceiling adjustment forgotten).
createTelemetryBatchesFloorTotal(tripID, telemetryData) ==
    BatchLoop(tripID, telemetryData, Len(telemetryData) \div BatchSize, 0, <<>>)

createTelemetryBatches(tripID, telemetryData) ==
    BatchLoop(tripID, telemetryData,
              (Len(telemetryData) + BatchSize - 1) \div BatchSize, 0, <<>>)

(***************************************************************************)
(* The storage layer at its interface (src/query.sql and the migration).   *)
(* A store holds the committed rows of buses, bus_routes and trips; a      *)
(* registration transaction holds the rows it has inserted and not yet     *)
(* committed.  seqs are the SERIAL sequences (last value handed out).      *)
(***************************************************************************)
EmptyStore == [buses |-> {}, routes |-> {}, trips |-> {}]

\* A target that an earlier run has already loaded trip "T1" into.
LoadedStore ==
    [buses |-> {[id |-> 1, bus_number |-> "B1"]},
     routes |-> {[id |-> 1, route_code |-> "R1"]},
     trips |-> {[id |-> 1, name |-> "T1", bus_id |-> 1, route_id |-> 1]}]

NoTx == [open |-> FALSE, buses |-> {}, routes |-> {}, trips |-> {}]

\* Faulty variant: a plain INSERT without the ON CONFLICT clause (and without a
\* unique index to stop it).
CreateBusInsertOnly(s, t, bus_number, nextId) ==
    [id |-> nextId,
     tx |-> [t EXCEPT !.buses = @ \cup {[id |-> nextId, bus_number |-> bus_number]}]]

\* CreateBus (src/query.sql:103-107): INSERT ... ON CONFLICT (bus_number)
\* DO UPDATE ... RETURNING id, evaluated inside transaction t on store s.
\* The sequence value nextId is consumed whether or not the row conflicts.
CreateBus(s, t, bus_number, nextId) ==
    LET rows == s.buses \cup t.buses
    IN IF \E r \in rows : r.bus_number = bus_number
       THEN [id |-> (CHOOSE r \in rows : r.bus_number = bus_number).id, tx |-> t]
       ELSE [id |-> nextId,
             tx |-> [t EXCEPT !.buses = @ \cup {[id |-> nextId,
                                                 bus_number |-> bus_number]}]]

\* Faulty variant: a plain INSERT without the ON CONFLICT clause.
CreateRouteInsertOnly(s, t, route_code, nextId) ==
    [id |-> nextId,
     tx |-> [t EXCEPT !.routes = @ \cup {[id |-> nextId, route_code |-> route_code]}]]

\* CreateRoute (src/query.sql:109-113).
CreateRoute(s, t, route_code, nextId) ==
    LET rows == s.routes \cup t.routes
    IN IF \E r \in rows : r.route_code = route_code
       THEN [id |-> (CHOOSE r \in rows : r.route_code = route_code).id, tx |-> t]
       ELSE [id |-> nextId,
             tx |-> [t EXCEPT !.routes = @ \cup {[id |-> nextId,
                                                  route_code |-> route_code]}]]

\* Faulty variant: the uniqueness check sees only the rows of the open
\* transaction, not the committed ones.
TripNameTakenInTxOnly(s, t, name) == \E r \in t.trips : r.name = name

\* Faulty variant: trips.name carries no UNIQUE constraint.
TripNameTakenNoUnique(s, t, name) == FALSE

\* CreateTrip (src/query.sql:115-148): a plain INSERT; trips.name is UNIQUE
\* (migration line 16), so an existing name is a constraint violation.
TripNameTaken(s, t, name) == \E r \in s.trips \cup t.trips : r.name = name

\* Faulty variant: the INSERT runs twice and the second id is returned.
CreateTripTwice(t, name, bus, route, nextId) ==
    [t EXCEPT !.trips = @ \cup {[id |-> nextId, name |-> name,
                                 bus_id |-> bus, route_id |-> route],
                                [id |-> nextId + 1, name |-> name,
                                 bus_id |-> bus, route_id |-> route]}]

\* CreateTrip (src/query.sql:115-148): a plain INSERT ... RETURNING id.
CreateTrip(t, name, bus, route, nextId) ==
    [t EXCEPT !.trips = @ \cup {[id |-> nextId, name |-> name,
                                 bus_id |-> bus, route_id |-> route]}]

\* Faulty variant: the statements ran in autocommit mode, so the rows written
\* before the failure stay in the tables.
RollbackKeepsRows(s, t) ==
    [buses |-> s.buses \cup t.buses,
     routes |-> s.routes \cup t.routes,
     trips |-> s.trips \cup t.trips]

\* tx.Rollback of the registration transaction (src/main.go:431, 438, 488):
\* the rows it wrote are discarded and the committed rows stay as they were.
Rollback(s, t) == s

\* Faulty variant: the commit is lost (the rows of the transaction never become
\* visible to other connections).
CommitTxLost(s, t) == s

\* tx.Commit of the registration transaction (src/main.go:496).
CommitTx(s, t) ==
    [buses |-> s.buses \cup t.buses,
     routes |-> s.routes \cup t.routes,
     trips |-> s.trips \cup t.trips]

\* Faulty variant: the query selects the trip's bus_id column.
GetBusIdFromTripId(s, trip) ==
    IF \E r \in s.trips : r.id = trip
    THEN (CHOOSE r \in s.trips : r.id = trip).bus_id
    ELSE 0

\* GetBusRouteIdFromTripId (src/query.sql:207-208), read on a worker's own
\* connection: it sees committed rows only.  0 stands for pgx.ErrNoRows.
GetBusRouteIdFromTripId(s, trip) ==
    IF \E r \in s.trips : r.id = trip
    THEN (CHOOSE r \in s.trips : r.id = trip).route_id
    ELSE 0

\* InsertTelemetryParams built from one row of a batch (src/main.go:206-306).
InsertTelemetryParams(trip, telemRow, route) ==
    [trip_id |-> trip, time |-> telemRow.TimeUnix,
     gnss_altitude |-> telemRow.GnssAltitude, itcs_bus_route_id |-> route]

RECURSIVE SeqToBag(_)
SeqToBag(rows) ==
    IF rows = <<>> THEN EmptyBag
    ELSE SetToBag({Head(rows)}) (+) SeqToBag(Tail(rows))

\* Faulty variant: a failed COPY also removes the rows the trip's other batches
\* have committed.
CopyFromFailedUndoTrip(visible, params) ==
    LET keep == {r \in BagToSet(visible) :
                    \A i \in 1..Len(params) : r.trip_id /= params[i].trip_id}
    IN [r \in keep |-> visible[r]]

\* Faulty variant: the COPY runs outside the transaction, row by row, so the rows
\* sent before the failure stay visible.
CopyFromFailedNoTx(visible, params) == visible (+) SetToBag({params[1]})

\* A failed InsertTelemetry (COPY FROM, src/main.go:309-312) inside the
\* worker's transaction: nothing it wrote is visible.
CopyFromFailed(visible, params) == visible

\* Faulty variant: conn.Release forgotten, the connection stays checked out.
ReleaseLeak(p, c) == p

\* conn.Release (src/main.go:190, 411, 580): the connection returns to the pool.
Release(p, c) == IF c = 0 THEN p ELSE [p EXCEPT ![c] = Free]

\* Faulty variant: pool.Acquire hands out a connection that may be checked out.
FreeConnAny(p) == 1

\* pool.Acquire picks an idle connection; which one is immaterial.
FreeConn(p) == CHOOSE c \in Conns : p[c] = Free /\ \A d \in Conns : p[d] = Free => c <= d
HasFree(p) == \E c \in Conns : p[c] = Free

(***************************************************************************)
(* Errors.  NilErr is Go's nil error; a worker's failure carries the       *)
(* batch number and total (src/main.go:324) and the step that failed.      *)
(***************************************************************************)
NilErr == [cause |-> "nil", BatchID |-> 0, TotalBatches |-> 0]

\* Faulty variant: the closure's error is sent as it is, without the batch context.
BatchErrBare(batch, cause) == [cause |-> cause, BatchID |-> 0, TotalBatches |-> 0]

BatchErr(batch, cause) ==
    [cause |-> cause, BatchID |-> batch.BatchID, TotalBatches |-> batch.TotalBatches]

NoBatch == TelemetryBatch(0, <<>>, 0, 0)
IdleWorker(p) ==
    [pc |-> p, batch |-> NoBatch, conn |-> 0, tx |-> FALSE, routeID |-> 0,
     params |-> <<>>, err |-> "nil"]

NoRet == [kind |-> "none", trip |-> "", err |-> NilErr]
OkRet == [kind |-> "nil", trip |-> "", err |-> NilErr]
ErrRet(kind, trip, err) == [kind |-> kind, trip |-> trip, err |-> err]

(***************************************************************************)
(* The command line (src/main.go:36-173).  A platform is the empty text,   *)
(* the one supported name or another name; a connection string is empty,   *)
(* not a PostgreSQL URL, or well formed; a data directory is empty, not    *)
(* there, there without metaData.csv, or there with it.                    *)
(***************************************************************************)
Platforms == {"", "postgresql", "mysql"}
ConnStrs == {"", "malformed", "ok"}
DataDirs == {"", "missing", "nometa", "ok"}

cliFlags == [connStr : ConnStrs, migrate : BOOLEAN, showHelp : BOOLEAN,
             platform : Platforms, dataDir : DataDirs]

datalayerSuggestions == {"postgresql"}

\* Each validation returns "nil" or the name of its error.
ValidateDatalayer(s) ==
    IF s = "" THEN "select a datalayer"
    ELSE IF s \in datalayerSuggestions THEN "nil"
    ELSE "unsuported datalayer"

ValidateConnStr(s) ==
    IF s = "" THEN "connection string cannot be empty"
    ELSE IF s = "malformed" THEN "not a postgresql url"
    ELSE "nil"

ValidateDataDir(d) ==
    IF d = "" THEN "dataDir cannot be empty"
    ELSE IF d = "missing" THEN "issue finding the data folder"
    ELSE IF d = "nometa" THEN "metaData.csv file not found"
    ELSE "nil"

validateFlags(f) ==
    IF f.showHelp THEN "nil"
    ELSE IF f.platform = "" THEN "a platform selection is required"
    ELSE IF ValidateDatalayer(f.platform) /= "nil" THEN "invalid platform"
    ELSE IF ValidateConnStr(f.connStr) /= "nil" THEN "invalid connection string"
    ELSE IF ValidateDataDir(f.dataDir) /= "nil" THEN "invalid dataDir"
    ELSE "nil"

\* The flags of a run that reaches the ingestion without -migrate.
ValidFlags == [connStr |-> "ok", migrate |-> FALSE, showHelp |-> FALSE,
               platform |-> "postgresql", dataDir |-> "ok"]

\* The end of the process: its exit status and the error main printed on
\* standard error.  NoExit: the process has not ended yet.
NoExit == [status |-> -1, printed |-> "none"]
Exited(status, printed) == [status |-> status, printed |-> printed]

\* Faulty variant: main exits with status 1 when runCLI returned an error.
ExitStatusNonZeroOnError(r) == IF r.kind = "nil" THEN 0 ELSE 1

\* The exit status after runCLI returned r: main prints the error and falls
\* off its end, there is no os.Exit on this path (src/main.go:605-608).
ExitStatus(r) == 0

VARIABLES
    pc,                \* position of runCLI
    ret,               \* what runCLI returned
    crashed,           \* the process died of an unrecovered panic
    metadata,          \* the metadata records the loop has reached so far
    store,             \* committed buses, bus_routes, trips
    seqs,              \* SERIAL sequences of the three tables
    telemetry,         \* committed telemetry rows (a bag)
    tx,                \* the registration transaction on tripConn
    pool,              \* owner of each pooled connection
    busID, routeID, tripID,
    tripTelemetry,     \* rows parsed for the current trip
    batches,           \* createTelemetryBatches' result
    jobs, jobsClosed,  \* the jobs channel
    results, resultsClosed, \* the results channel
    wg,                \* the WaitGroup counter
    spawned,           \* workers started so far for this trip
    producer, sent,    \* the sending goroutine and how many batches it sent
    closer,            \* the wg.Wait(); close(results) goroutine
    workers,           \* the telemetryWorker goroutines
    processingErrors,  \* errors the collector has gathered
    faults,            \* storage operations that have failed so far
    taken,             \* history: times each batch was received from jobs
    outcomes,          \* history: outcomes each batch reported
    collected,         \* history: results the collector received
    tripResult,        \* history: verdict of each trip processed so far
    maintCalls,        \* history: calls of MakePartitions made so far
    maintError,        \* history: the maintenance step that failed ("none")
    resolved,          \* history: the ids CreateBus and CreateRoute returned
    ingested,          \* history: trip id and parsed row count of each trip
    registered,        \* history: trip id of each record whose registration committed
    maintTx,           \* the maintenance transaction: "none", "open", "committed", "rolledBack"
    flags,             \* the command-line flags parseFlags returned
    exit,              \* how the process ended: exit status and what main printed
    cell,              \* the text of a CSV cell given to the optional parsers
    optional           \* the optional fields ParseTripTelemetryCSV stored for it

vars == <<pc, ret, crashed, faults, metadata, store, seqs, telemetry, tx, pool,
          busID, routeID, tripID, tripTelemetry, batches, jobs, jobsClosed,
          results, resultsClosed, wg, spawned, producer, sent, closer, workers,
          processingErrors, taken, outcomes, collected, tripResult,
          maintCalls, maintError, resolved, ingested, registered,
          maintTx, flags, exit, cell, optional>>

mainVars == <<flags, exit>>
csvVars == <<cell, optional>>
regVars == <<store, seqs, tx, busID, routeID, tripID>>
chanVars == <<jobs, jobsClosed, results, resultsClosed, wg, spawned, producer,
              sent, closer, workers>>
histVars == <<taken, outcomes, collected>>
tripVars == <<tripTelemetry, batches, processingErrors>>
runHist == <<maintCalls, maintError, resolved, ingested, registered,
          maintTx, mainVars, csvVars>>

idx == Len(metadata)
m == metadata[idx]

InitStores == {EmptyStore, LoadedStore}

\* Nothing has run yet: an existing store, an idle pool, no goroutine.
Fresh ==
    /\ ret = NoRet
    /\ crashed = FALSE
    /\ faults = 0
    /\ metadata = <<>>
    /\ store \in InitStores
    /\ seqs = [buses |-> Cardinality(store.buses),
               routes |-> Cardinality(store.routes),
               trips |-> Cardinality(store.trips)]
    /\ telemetry = EmptyBag
    /\ tx = NoTx
    /\ pool = [c \in Conns |-> Free]
    /\ busID = 0 /\ routeID = 0 /\ tripID = 0
    /\ tripTelemetry = <<>>
    /\ batches = <<>>
    /\ jobs = <<>> /\ jobsClosed = FALSE
    /\ results = <<>> /\ resultsClosed = FALSE
    /\ wg = 0 /\ spawned = 0
    /\ producer = "off" /\ sent = 0
    /\ closer = "off"
    /\ workers = [w \in Workers |-> IdleWorker("off")]
    /\ processingErrors = <<>>
    /\ taken = <<>> /\ outcomes = <<>> /\ collected = 0
    /\ tripResult = <<>>
    /\ maintCalls = 0 /\ maintError = "none" /\ resolved = <<>> /\ ingested = <<>>
    /\ registered = <<>>
    /\ maintTx = "none"
    /\ exit = NoExit
    /\ cell = <<>> /\ optional = NoOptional

\* runCLI at the acquisition of the trip connection, its flags validated,
\* the metadata parsed and the pool created.
Init ==
    /\ pc = "acquireTripConn"
    /\ flags = ValidFlags
    /\ Fresh

\* A storage operation fails (connection lost, server error, ...).
Fault == faults < MaxFaults /\ faults' = faults + 1

ConnOf(p, owner) ==
    IF \E c \in Conns : p[c] = owner THEN CHOOSE c \in Conns : p[c] = owner ELSE 0

\* Faulty variant: the return after a failed commit of the trip transaction is
\* missing, so runCLI goes on with the telemetry of the trip.
ReturnMissing(r) ==
    /\ ret' = r
    /\ tx' = NoTx
    /\ IF r.kind = "commit"
       THEN pc' = "parse" /\ pool' = pool
       ELSE /\ pc' = "returned"
            /\ pool' = Release(Release(pool, ConnOf(pool, MaintOwner)),
                               ConnOf(pool, MainOwner))

\* A return of runCLI: the deferred conn.Release, tripConn.Release and
\* pool.Close run (src/main.go:404, 411, 580, 586) and any open transaction
\* of the orchestrator ends uncommitted.
Return(r) ==
    /\ pc' = "returned"
    /\ ret' = r
    /\ tx' = NoTx
    /\ pool' = Release(Release(pool, ConnOf(pool, MaintOwner)), ConnOf(pool, MainOwner))

(***************************************************************************)
(* runCLI: the trip connection and the per-trip registration               *)
(* (src/main.go:406-499).                                                  *)
(***************************************************************************)
AcquireTripConn ==
    /\ ~crashed /\ pc = "acquireTripConn"
    /\ \/ /\ HasFree(pool)
          /\ pool' = [pool EXCEPT ![FreeConn(pool)] = MainOwner]
          /\ pc' = "loop"
          /\ UNCHANGED <<ret, tx>>
       \/ Return(ErrRet("acquireTripConn", "", NilErr))
    /\ UNCHANGED <<crashed, faults, metadata, store, seqs, telemetry, busID,
                   routeID, tripID, tripVars, chanVars, histVars, tripResult, runHist>>

\* for _, m := range metadata.  The parsed list is revealed record by
\* record as the loop reaches it: there is a next record, or the list ends.
LoopNext ==
    /\ ~crashed /\ pc = "loop"
    /\ \/ /\ idx < MaxTrips
          /\ \E rec \in Metadata(idx + 1) : metadata' = Append(metadata, rec)
          /\ pc' = "beginTx"
       \/ /\ pc' = "maintAcquire"
          /\ UNCHANGED metadata
    /\ UNCHANGED <<ret, crashed, faults, regVars, telemetry, pool, tripVars,
                   chanVars, histVars, tripResult, runHist>>

BeginTripTx ==
    /\ ~crashed /\ pc = "beginTx"
    /\ \/ /\ tx' = [NoTx EXCEPT !.open = TRUE]
          /\ pc' = "createBus"
          /\ UNCHANGED <<ret, pool>>
       \/ Return(ErrRet("beginTx", m.Name, NilErr))
    /\ UNCHANGED <<crashed, faults, metadata, store, seqs, telemetry, busID,
                   routeID, tripID, tripVars, chanVars, histVars, tripResult, runHist>>

CreateBusStep ==
    /\ ~crashed /\ pc = "createBus"
    /\ \/ LET r == CreateBus(store, tx, m.BusNumber, seqs.buses + 1)
          IN /\ busID' = r.id
             /\ tx' = r.tx
             /\ seqs' = [seqs EXCEPT !.buses = @ + 1]
             /\ resolved' = Append(resolved, [table |-> "buses",
                                               key |-> m.BusNumber, id |-> r.id])
             /\ pc' = "createRoute"
             /\ UNCHANGED <<ret, pool, store>>
       \/ /\ Return(ErrRet("createBus", m.Name, NilErr))
          /\ store' = Rollback(store, tx)
          /\ UNCHANGED <<busID, seqs, resolved>>
    /\ UNCHANGED <<crashed, faults, metadata, telemetry, routeID, tripID,
                   tripVars, chanVars, histVars, tripResult, maintCalls, maintError,
                   ingested, registered, maintTx,
                   mainVars, csvVars>>

CreateRouteStep ==
    /\ ~crashed /\ pc = "createRoute"
    /\ \/ LET r == CreateRoute(store, tx, m.BusRoute, seqs.routes + 1)
          IN /\ routeID' = r.id
             /\ tx' = r.tx
             /\ seqs' = [seqs EXCEPT !.routes = @ + 1]
             /\ resolved' = Append(resolved, [table |-> "bus_routes",
                                               key |-> m.BusRoute, id |-> r.id])
             /\ pc' = "createTrip"
             /\ UNCHANGED <<ret, pool, store>>
       \/ /\ Return(ErrRet("createRoute", m.Name, NilErr))
          /\ store' = Rollback(store, tx)
          /\ UNCHANGED <<routeID, seqs, resolved>>
    /\ UNCHANGED <<crashed, faults, metadata, telemetry, busID, tripID,
                   tripVars, chanVars, histVars, tripResult, maintCalls, maintError,
                   ingested, registered, maintTx,
                   mainVars, csvVars>>

CreateTripStep ==
    /\ ~crashed /\ pc = "createTrip"
    /\ \/ /\ ~TripNameTaken(store, tx, m.Name)
          /\ tripID' = seqs.trips + 1
          /\ tx' = CreateTrip(tx, m.Name, busID, routeID, seqs.trips + 1)
          /\ seqs' = [seqs EXCEPT !.trips = @ + 1]
          /\ pc' = "commit"
          /\ UNCHANGED <<ret, pool, store>>
       \/ /\ TripNameTaken(store, tx, m.Name)
          /\ Return(ErrRet("createTrip", m.Name, NilErr))
          /\ store' = Rollback(store, tx)
          /\ seqs' = [seqs EXCEPT !.trips = @ + 1]
          /\ UNCHANGED tripID
       \/ /\ Return(ErrRet("createTrip", m.Name, NilErr))
          /\ store' = Rollback(store, tx)
          /\ UNCHANGED <<tripID, seqs>>
    /\ UNCHANGED <<crashed, faults, metadata, telemetry, busID, routeID,
                   tripVars, chanVars, histVars, tripResult, runHist>>

CommitTripTx ==
    /\ ~crashed /\ pc = "commit"
    /\ \/ /\ store' = CommitTx(store, tx)
          /\ tx' = NoTx
          /\ pc' = "parse"
          /\ registered' = Append(registered, tripID)
          /\ UNCHANGED <<ret, pool>>
       \/ /\ Return(ErrRet("commit", m.Name, NilErr))
          /\ UNCHANGED <<store, registered>>
    /\ UNCHANGED <<crashed, faults, metadata, seqs, telemetry, busID, routeID,
                   tripID, tripVars, chanVars, histVars, tripResult, maintCalls,
                   maintError, resolved, ingested, maintTx,
                   mainVars, csvVars>>

\* ParseTripTelemetryCSV (src/main.go:502-510): the file is missing or
\* unreadable, or it yields its rows; a trip without rows is skipped.
\* Faulty variant: the empty trip is not skipped.
NoTelemetryNever(rows) == FALSE

\* if len(tripTelemetry) == 0 { continue } (src/main.go:507-510).
NoTelemetry(rows) == Len(rows) = 0

ParseTelemetry ==
    /\ ~crashed /\ pc = "parse"
    /\ \/ /\ Return(ErrRet("parse", m.Name, NilErr))
          /\ UNCHANGED <<tripTelemetry, tripResult, ingested>>
       \/ /\ \E n \in 0..MaxSamples : \E a \in {0, n} :
                tripTelemetry' = TelemetryFile(n, a)
          /\ ingested' = Append(ingested, [trip |-> tripID,
                                            samples |-> Len(tripTelemetry')])
          /\ IF NoTelemetry(tripTelemetry')
             THEN /\ tripResult' = Append(tripResult, "empty")
                  /\ pc' = "loop"
             ELSE /\ pc' = "batch"
                  /\ UNCHANGED tripResult
          /\ UNCHANGED <<ret, tx, pool>>
    /\ UNCHANGED <<crashed, faults, metadata, store, seqs, telemetry, busID,
                   routeID, tripID, batches, processingErrors, chanVars, histVars,
                   maintCalls, maintError, resolved,
                   registered, maintTx,
                   mainVars, csvVars>>

(***************************************************************************)
(* runCLI: batching and the set-up of the worker pool                      *)
(* (src/main.go:512-547).                                                  *)
(***************************************************************************)
CreateBatches ==
    /\ ~crashed /\ pc = "batch"
    /\ batches' = createTelemetryBatches(tripID, tripTelemetry)
    /\ jobs' = <<>> /\ jobsClosed' = FALSE
    /\ results' = <<>> /\ resultsClosed' = FALSE
    /\ wg' = 0 /\ spawned' = 0
    /\ producer' = "off" /\ sent' = 0 /\ closer' = "off"
    /\ workers' = [w \in Workers |-> IdleWorker("off")]
    /\ processingErrors' = <<>>
    /\ taken' = [b \in 1..Len(batches') |-> 0]
    /\ outcomes' = [b \in 1..Len(batches') |-> <<>>]
    /\ collected' = 0
    /\ pc' = "spawnWorkers"
    /\ UNCHANGED <<ret, crashed, faults, metadata, regVars, telemetry, pool,
                   tripTelemetry, tripResult, runHist>>

\* Faulty variant: no more workers than there are batches.
WorkersToStartCapped(bs) == IF Len(bs) < WorkerCount THEN Len(bs) ELSE WorkerCount

\* for range WorkerCount: the number of workers started does not depend on
\* the batch list.
WorkersToStart(bs) == WorkerCount

\* for range WorkerCount { wg.Add(1); go telemetryWorker(...) }
SpawnWorker ==
    /\ ~crashed /\ pc = "spawnWorkers"
    /\ wg' = wg + 1
    /\ workers' = [workers EXCEPT ![spawned + 1] = IdleWorker("recv")]
    /\ spawned' = spawned + 1
    /\ pc' = IF spawned + 1 = WorkersToStart(batches)
             THEN "spawnProducer" ELSE "spawnWorkers"
    /\ UNCHANGED <<ret, crashed, faults, metadata, regVars, telemetry, pool,
                   tripVars, jobs, jobsClosed, results, resultsClosed, producer,
                   sent, closer, histVars, tripResult, runHist>>

SpawnProducer ==
    /\ ~crashed /\ pc = "spawnProducer"
    /\ producer' = "sending"
    /\ pc' = "spawnCloser"
    /\ UNCHANGED <<ret, crashed, faults, metadata, regVars, telemetry, pool,
                   tripVars, jobs, jobsClosed, results, resultsClosed, wg,
                   spawned, sent, closer, workers, histVars, tripResult, runHist>>

SpawnCloser ==
    /\ ~crashed /\ pc = "spawnCloser"
    /\ closer' = "waiting"
    /\ pc' = "collect"
    /\ UNCHANGED <<ret, crashed, faults, metadata, regVars, telemetry, pool,
                   tripVars, jobs, jobsClosed, results, resultsClosed, wg,
                   spawned, producer, sent, workers, histVars, tripResult, runHist>>

\* Faulty variant: the producer walks the batch list from its end.
NextToSendReverse(bs, n) == bs[Len(bs) - n]

\* for _, batch := range batches: the batch sent after n batches were sent.
NextToSend(bs, n) == bs[n + 1]

\* jobs <- batch (blocks while the buffer is full).
ProducerSend ==
    /\ ~crashed /\ producer = "sending"
    /\ sent < Len(batches)
    /\ Len(jobs) < BufferSize
    /\ jobs' = Append(jobs, NextToSend(batches, sent))
    /\ sent' = sent + 1
    /\ UNCHANGED <<pc, ret, crashed, faults, metadata, regVars, telemetry, pool,
                   tripVars, jobsClosed, results, resultsClosed, wg, spawned,
                   producer, closer, workers, histVars, tripResult, runHist>>

\* defer close(jobs)
ProducerClose ==
    /\ ~crashed /\ producer = "sending"
    /\ sent = Len(batches)
    /\ jobsClosed' = TRUE
    /\ producer' = "done"
    /\ UNCHANGED <<pc, ret, crashed, faults, metadata, regVars, telemetry, pool,
                   tripVars, jobs, results, resultsClosed, wg, spawned, sent,
                   closer, workers, histVars, tripResult, runHist>>

\* Faulty variant: wg.Wait() returns while one worker is still running.
WaitDoneOneLeft(n) == n <= 1

\* Faulty variant: the results channel is closed without waiting for the workers.
WaitDoneNoWait(n) == TRUE

\* wg.Wait() returns when the counter is zero.
WaitDone(n) == n = 0

CloserClose ==
    /\ ~crashed /\ closer = "waiting"
    /\ WaitDone(wg)
    /\ resultsClosed' = TRUE
    /\ closer' = "done"
    /\ UNCHANGED <<pc, ret, crashed, faults, metadata, regVars, telemetry, pool,
                   tripVars, jobs, jobsClosed, results, wg, spawned, producer,
                   sent, workers, histVars, tripResult, runHist>>

(***************************************************************************)
(* telemetryWorker (src/main.go:175-334).  One action per blocking step.   *)
(***************************************************************************)
workerFrame == <<pc, ret, metadata, regVars, tripVars, jobsClosed,
                 resultsClosed, spawned, producer, sent, closer, collected,
                 tripResult, runHist>>

\* Faulty variant: the batch is read but left at the head of the queue.
DequeuePeek(q) == q

\* for batch := range jobs: receiving removes the head of the queue.
Dequeue(q) == Tail(q)

WorkerRecv(w) ==
    /\ ~crashed /\ workers[w].pc = "recv"
    /\ \/ /\ jobs /= <<>>
          /\ workers' = [workers EXCEPT ![w].pc = "acquire",
                                        ![w].batch = Head(jobs)]
          /\ jobs' = Dequeue(jobs)
          /\ taken' = [taken EXCEPT ![Head(jobs).BatchID] = @ + 1]
          /\ UNCHANGED wg
       \/ /\ jobs = <<>> /\ jobsClosed
          /\ workers' = [workers EXCEPT ![w] = IdleWorker("exited")]
          /\ wg' = wg - 1
          /\ UNCHANGED <<jobs, taken>>
    /\ UNCHANGED <<workerFrame, faults, crashed, telemetry, pool, results, outcomes>>

\* pool.Acquire blocks until a connection is idle, or fails.
WorkerAcquire(w) ==
    /\ ~crashed /\ workers[w].pc = "acquire"
    /\ \/ /\ HasFree(pool)
          /\ pool' = [pool EXCEPT ![FreeConn(pool)] = w]
          /\ workers' = [workers EXCEPT ![w].pc = "begin",
                                        ![w].conn = FreeConn(pool)]
          /\ UNCHANGED faults
       \/ /\ Fault
          /\ workers' = [workers EXCEPT ![w].pc = "report", ![w].err = "acquire"]
          /\ UNCHANGED pool
    /\ UNCHANGED <<workerFrame, crashed, telemetry, jobs, results, wg, taken,
                   outcomes>>

WorkerBegin(w) ==
    /\ ~crashed /\ workers[w].pc = "begin"
    /\ \/ /\ workers' = [workers EXCEPT ![w].pc = "lookup", ![w].tx = TRUE]
          /\ UNCHANGED faults
       \/ /\ Fault
          /\ workers' = [workers EXCEPT ![w].pc = "cleanup", ![w].err = "begin"]
    /\ UNCHANGED <<workerFrame, crashed, telemetry, pool, jobs, results, wg,
                   taken, outcomes>>

WorkerLookup(w) ==
    /\ ~crashed /\ workers[w].pc = "lookup"
    /\ LET id == GetBusRouteIdFromTripId(store, workers[w].batch.TripID)
       IN \/ /\ id /= 0
             /\ workers' = [workers EXCEPT ![w].pc = "insert", ![w].routeID = id]
             /\ UNCHANGED faults
          \/ /\ id = 0
             /\ workers' = [workers EXCEPT ![w].pc = "cleanup", ![w].err = "norows"]
             /\ UNCHANGED faults
          \/ /\ Fault
             /\ workers' = [workers EXCEPT ![w].pc = "cleanup", ![w].err = "lookup"]
    /\ UNCHANGED <<workerFrame, crashed, telemetry, pool, jobs, results, wg,
                   taken, outcomes>>

\* The params loop dereferences every optional field unconditionally
\* (src/main.go:217-240): a nil pointer is a run-time panic.
DerefPanics(records) == \E i \in 1..Len(records) : records[i].GnssAltitude = Nil

\* Faulty variant: the params loop stops one row early.
BuildParamsDropLast(batch, route) ==
    [i \in 1..(Len(batch.Records) - 1) |->
        InsertTelemetryParams(batch.TripID, batch.Records[i], route)]

BuildParams(batch, route) ==
    [i \in 1..Len(batch.Records) |->
        InsertTelemetryParams(batch.TripID, batch.Records[i], route)]

WorkerInsert(w) ==
    /\ ~crashed /\ workers[w].pc = "insert"
    /\ LET batch == workers[w].batch
           params == BuildParams(batch, workers[w].routeID)
       IN \/ /\ DerefPanics(batch.Records)
             /\ workers' = [workers EXCEPT ![w].pc = "unwinding"]
             /\ UNCHANGED <<crashed, telemetry, faults>>
          \/ /\ ~DerefPanics(batch.Records)
             /\ workers' = [workers EXCEPT ![w].pc = "commit", ![w].params = params]
             /\ UNCHANGED <<crashed, telemetry, faults>>
          \/ /\ ~DerefPanics(batch.Records)
             /\ Fault
             /\ workers' = [workers EXCEPT ![w].pc = "cleanup", ![w].err = "insert"]
             /\ telemetry' = CopyFromFailed(telemetry, params)
             /\ UNCHANGED crashed
    /\ UNCHANGED <<workerFrame, pool, jobs, results, wg, taken, outcomes>>

\* Faulty variant: rows are dropped when a later sample of the trip is
\* already stored, so the outcome depends on the order of the commits.
CommitRowsUnlessLater(visible, params) ==
    IF \E r \in BagToSet(visible) : \E i \in 1..Len(params) :
          r.trip_id = params[i].trip_id /\ r.time > params[i].time
    THEN visible
    ELSE visible (+) SeqToBag(params)

\* The rows of a committed COPY are added to the visible rows, whatever
\* rows are already there (src/main.go:309-316).
CommitRows(visible, params) == visible (+) SeqToBag(params)

\* tx.Commit: the rows of the transaction become visible together.  A
\* commit that reports an error may or may not have been applied by the
\* server; either way the transaction is over.
WorkerCommit(w) ==
    /\ ~crashed /\ workers[w].pc = "commit"
    /\ \/ /\ telemetry' = CommitRows(telemetry, workers[w].params)
          /\ workers' = [workers EXCEPT ![w].pc = "cleanup", ![w].tx = FALSE,
                                        ![w].params = <<>>]
          /\ UNCHANGED faults
       \/ /\ Fault
          /\ \E applied \in BOOLEAN :
                telemetry' = IF applied
                             THEN CommitRows(telemetry, workers[w].params)
                             ELSE telemetry
          /\ workers' = [workers EXCEPT ![w].pc = "cleanup", ![w].tx = FALSE,
                                        ![w].params = <<>>, ![w].err = "commit"]
    /\ UNCHANGED <<workerFrame, crashed, pool, jobs, results, wg, taken, outcomes>>

\* The deferred tx.Rollback and conn.Release of the closure
\* (src/main.go:190, 196), run when it returns.
WorkerCleanup(w) ==
    /\ ~crashed /\ workers[w].pc = "cleanup"
    /\ pool' = Release(pool, workers[w].conn)
    /\ workers' = [workers EXCEPT ![w].pc = "report", ![w].tx = FALSE,
                                  ![w].params = <<>>, ![w].conn = 0]
    /\ UNCHANGED <<workerFrame, faults, crashed, telemetry, jobs, results, wg, taken,
                   outcomes>>

\* An unrecovered panic: the goroutine's deferred tx.Rollback, conn.Release
\* and wg.Done run while the other goroutines go on, then the process dies.
WorkerUnwind(w) ==
    /\ ~crashed /\ workers[w].pc = "unwinding"
    /\ pool' = Release(pool, workers[w].conn)
    /\ workers' = [workers EXCEPT ![w].pc = "panicked", ![w].tx = FALSE,
                                  ![w].conn = 0]
    /\ wg' = wg - 1
    /\ crashed' = TRUE
    /\ UNCHANGED <<workerFrame, faults, telemetry, jobs, results, taken, outcomes>>

\* Faulty variant: the worker returns after a failed batch instead of looping.
AfterReportStopOnError(cause) == IF cause = "nil" THEN "recv" ELSE "stopped"

\* After results <- ..., the for-range loop takes the next batch.
AfterReport(cause) == "recv"

\* Faulty variant: the results channel gets the capacity of the jobs channel.
ResultsCapBufferSize(bs) == BufferSize

\* results := make(chan error, len(batches)) (src/main.go:526).
ResultsCap(bs) == Len(bs)

\* results <- err (src/main.go:323-332); a send on a closed channel panics.
WorkerReport(w) ==
    /\ ~crashed /\ workers[w].pc = "report"
    /\ LET batch == workers[w].batch
           cause == workers[w].err
           res == IF cause = "nil" THEN NilErr ELSE BatchErr(batch, cause)
       IN IF resultsClosed
          THEN /\ crashed' = TRUE
               /\ workers' = [workers EXCEPT ![w].pc = "panicked"]
               /\ UNCHANGED <<results, outcomes, wg>>
          ELSE /\ Len(results) < ResultsCap(batches)
               /\ results' = Append(results, res)
               /\ outcomes' = [outcomes EXCEPT ![batch.BatchID] = Append(@, cause)]
               /\ workers' = [workers EXCEPT ![w] = IdleWorker(AfterReport(cause))]
               /\ wg' = IF AfterReport(cause) = "recv" THEN wg ELSE wg - 1
               /\ UNCHANGED crashed
    /\ UNCHANGED <<workerFrame, faults, telemetry, pool, jobs, taken>>

(***************************************************************************)
(* runCLI: collecting the results and the trip's verdict                   *)
(* (src/main.go:549-563).                                                  *)
(***************************************************************************)
\* Faulty variant: only the latest result is remembered.
CollectedLatestOnly(errs, err) == IF err.cause = "nil" THEN <<>> ELSE <<err>>

\* Faulty variant: a new error is put in front of the earlier ones.
CollectedPrepend(errs, err) == IF err.cause /= "nil" THEN <<err>> \o errs ELSE errs

\* Faulty variant: the collector drains the channel without keeping the errors.
CollectedNone(errs, err) == errs

Collected(errs, err) == IF err.cause /= "nil" THEN Append(errs, err) ELSE errs

Collect ==
    /\ ~crashed /\ pc = "collect"
    /\ results /= <<>>
    /\ processingErrors' = Collected(processingErrors, Head(results))
    /\ results' = Tail(results)
    /\ collected' = collected + 1
    /\ UNCHANGED <<pc, ret, crashed, faults, metadata, regVars, telemetry, pool,
                   tripTelemetry, batches, jobs, jobsClosed, resultsClosed, wg,
                   spawned, producer, sent, closer, workers, taken, outcomes,
                   tripResult, runHist>>

\* The range over results ends when the channel is closed and drained.
\* Faulty variant: collected errors are logged and the loop goes on.
HaltsRunNever(errs) == FALSE

\* if len(processingErrors) > 0 { return ... } (src/main.go:557-563).
HaltsRun(errs) == Len(errs) > 0

Verdict ==
    /\ ~crashed /\ pc = "collect"
    /\ results = <<>> /\ resultsClosed
    /\ tripResult' = Append(tripResult, IF Len(processingErrors) > 0
                                         THEN "failure" ELSE "success")
    /\ \/ /\ HaltsRun(processingErrors)
          /\ Return(ErrRet("telemetry", m.Name, processingErrors[1]))
       \/ /\ ~HaltsRun(processingErrors)
          /\ pc' = "loop"
          /\ UNCHANGED <<ret, tx, pool>>
    /\ UNCHANGED <<crashed, faults, metadata, store, seqs, telemetry, busID,
                   routeID, tripID, tripVars, chanVars, histVars, runHist>>

(***************************************************************************)
(* runCLI: partition maintenance (src/main.go:574-595).  Its transaction   *)
(* runs on a second connection while tripConn is still held.               *)
(***************************************************************************)
\* Faulty variant: the error of a maintenance step is logged and nil is returned.
MaintErrSwallowed(step) == OkRet

\* return fmt.Errorf(...) of a failed maintenance step (src/main.go:577-592).
MaintErr(step) == ErrRet(step, "", NilErr)

MaintAcquire ==
    /\ ~crashed /\ pc = "maintAcquire"
    /\ \/ /\ HasFree(pool)
          /\ pool' = [pool EXCEPT ![FreeConn(pool)] = MaintOwner]
          /\ pc' = "maintBegin"
          /\ UNCHANGED <<ret, tx, maintError>>
       \/ /\ Return(MaintErr("maintAcquire"))
          /\ maintError' = "maintAcquire"
    /\ UNCHANGED <<crashed, faults, metadata, store, seqs, telemetry, busID,
                   routeID, tripID, tripVars, chanVars, histVars, tripResult,
                   maintCalls, resolved, ingested, registered, maintTx,
                   mainVars, csvVars>>

\* Faulty variant: the transaction is committed when the call succeeded.
EndMaintTxCommit(ok) == IF ok THEN "committed" ELSE "rolledBack"

\* defer tx.Rollback(ctx) (src/main.go:586) is the only call that ends the
\* maintenance transaction, whether MakePartitions succeeded or not.
EndMaintTx(ok) == "rolledBack"

MaintBegin ==
    /\ ~crashed /\ pc = "maintBegin"
    /\ \/ /\ tx' = [NoTx EXCEPT !.open = TRUE]
          /\ pc' = "maintCall"
          /\ maintTx' = "open"
          /\ UNCHANGED <<ret, pool, maintError>>
       \/ /\ Return(MaintErr("maintBegin"))
          /\ maintError' = "maintBegin"
          /\ UNCHANGED maintTx
    /\ UNCHANGED <<crashed, faults, metadata, store, seqs, telemetry, busID,
                   routeID, tripID, tripVars, chanVars, histVars, tripResult,
                   maintCalls, resolved, ingested, registered, mainVars, csvVars>>

\* qtx.MakePartitions (src/main.go:589): CALL run_maintenance_proc() on the
\* maintenance transaction; the call succeeds or fails.
MakePartitions ==
    /\ ~crashed /\ pc = "maintCall"
    /\ maintCalls' = maintCalls + 1
    /\ \/ /\ Return(OkRet)
          /\ maintTx' = EndMaintTx(TRUE)
          /\ UNCHANGED maintError
       \/ /\ Return(MaintErr("makePartitions"))
          /\ maintTx' = EndMaintTx(FALSE)
          /\ maintError' = "makePartitions"
    /\ UNCHANGED <<crashed, faults, metadata, store, seqs, telemetry, busID,
                   routeID, tripID, tripVars, chanVars, histVars, tripResult,
                   resolved, ingested, registered, mainVars, csvVars>>

Next ==
    \/ AcquireTripConn
    \/ LoopNext
    \/ BeginTripTx
    \/ CreateBusStep
    \/ CreateRouteStep
    \/ CreateTripStep
    \/ CommitTripTx
    \/ ParseTelemetry
    \/ CreateBatches
    \/ SpawnWorker
    \/ SpawnProducer
    \/ SpawnCloser
    \/ ProducerSend
    \/ ProducerClose
    \/ CloserClose
    \/ \E w \in Workers : WorkerRecv(w)
    \/ \E w \in Workers : WorkerAcquire(w)
    \/ \E w \in Workers : WorkerBegin(w)
    \/ \E w \in Workers : WorkerLookup(w)
    \/ \E w \in Workers : WorkerInsert(w)
    \/ \E w \in Workers : WorkerCommit(w)
    \/ \E w \in Workers : WorkerCleanup(w)
    \/ \E w \in Workers : WorkerUnwind(w)
    \/ \E w \in Workers : WorkerReport(w)
    \/ Collect
    \/ Verdict
    \/ MaintAcquire
    \/ MaintBegin
    \/ MakePartitions

Spec == Init /\ [][Next]_vars

(***************************************************************************)
(* The whole process: main validates the flags, calls runCLI and ends      *)
(* (src/main.go:598-609); runCLI starts with the help text, the migration, *)
(* the metadata file and the pool (src/main.go:357-403).                   *)
(***************************************************************************)
MainInit ==
    /\ pc = "main"
    /\ flags \in cliFlags
    /\ Fresh

MainValidate ==
    /\ pc = "main"
    /\ IF validateFlags(flags) /= "nil"
       THEN /\ exit' = Exited(1, validateFlags(flags))
            /\ pc' = "exited"
       ELSE /\ pc' = "runCLI"
            /\ UNCHANGED exit
    /\ UNCHANGED <<ret, crashed, faults, metadata, regVars, telemetry, pool,
                   tripVars, chanVars, histVars, tripResult, maintCalls,
                   maintError, resolved, ingested, registered, maintTx, flags,
                   csvVars>>

RunCLIStart ==
    /\ pc = "runCLI"
    /\ IF flags.showHelp
       THEN Return(OkRet)
       ELSE \/ flags.migrate /\ Return(ErrRet("migrate", "", NilErr))
            \/ Return(ErrRet("parseMetadata", "", NilErr))
            \/ Return(ErrRet("parseConfig", "", NilErr))
            \/ Return(ErrRet("newPool", "", NilErr))
            \/ pc' = "acquireTripConn" /\ UNCHANGED <<ret, tx, pool>>
    /\ UNCHANGED <<crashed, faults, metadata, store, seqs, telemetry, busID,
                   routeID, tripID, tripVars, chanVars, histVars, tripResult, runHist>>

\* runCLI returned: main prints the error, if any, and ends.
MainExit ==
    /\ pc = "returned"
    /\ pc' = "exited"
    /\ exit' = Exited(ExitStatus(ret), IF ret.kind = "nil" THEN "none" ELSE ret.kind)
    /\ UNCHANGED <<ret, crashed, faults, metadata, regVars, telemetry, pool,
                   tripVars, chanVars, histVars, tripResult, maintCalls,
                   maintError, resolved, ingested, registered, maintTx, flags,
                   csvVars>>

\* The nil dereference of telemetryWorker is not recovered: the Go runtime
\* prints the panic and ends the process with status 2.
MainPanic ==
    /\ crashed /\ exit = NoExit
    /\ exit' = Exited(2, "panic")
    /\ UNCHANGED <<pc, ret, crashed, faults, metadata, regVars, telemetry, pool,
                   tripVars, chanVars, histVars, tripResult, maintCalls,
                   maintError, resolved, ingested, registered, maintTx, flags,
                   csvVars>>

MainNext ==
    \/ MainValidate
    \/ RunCLIStart
    \/ Next
    \/ MainExit
    \/ MainPanic

MainSpec == MainInit /\ [][MainNext]_vars

(***************************************************************************)
(* createTelemetryBatches on its own: applied once to an arbitrary trip id *)
(* and row sequence, the empty one included.                               *)
(***************************************************************************)
BatchInputs == UNION {{TelemetryFile(n, a) : a \in 0..n} : n \in 0..MaxRows}

BatchInit ==
    /\ pc = "call"
    /\ ret = NoRet
    /\ crashed = FALSE
    /\ faults = 0
    /\ metadata = <<>>
    /\ store = EmptyStore
    /\ seqs = [buses |-> 0, routes |-> 0, trips |-> 0]
    /\ telemetry = EmptyBag
    /\ tx = NoTx
    /\ pool = [c \in Conns |-> Free]
    /\ busID = 0 /\ routeID = 0
    /\ tripID \in 1..3
    /\ tripTelemetry \in BatchInputs
    /\ batches = <<>>
    /\ jobs = <<>> /\ jobsClosed = FALSE
    /\ results = <<>> /\ resultsClosed = FALSE
    /\ wg = 0 /\ spawned = 0
    /\ producer = "off" /\ sent = 0
    /\ closer = "off"
    /\ workers = [w \in Workers |-> IdleWorker("off")]
    /\ processingErrors = <<>>
    /\ taken = <<>> /\ outcomes = <<>> /\ collected = 0
    /\ tripResult = <<>>
    /\ maintCalls = 0 /\ maintError = "none" /\ resolved = <<>> /\ ingested = <<>>
    /\ registered = <<>>
    /\ maintTx = "none"
    /\ flags = ValidFlags /\ exit = NoExit
    /\ cell = <<>> /\ optional = NoOptional

\* ParseTripTelemetryCSV on one row: the same cell text under each of the
\* three kinds of optional column.
ParseInit ==
    /\ pc = "parseCells"
    /\ ret = NoRet
    /\ crashed = FALSE
    /\ faults = 0
    /\ metadata = <<>>
    /\ store = EmptyStore
    /\ seqs = [buses |-> 0, routes |-> 0, trips |-> 0]
    /\ telemetry = EmptyBag
    /\ tx = NoTx
    /\ pool = [c \in Conns |-> Free]
    /\ busID = 0 /\ routeID = 0 /\ tripID = 0
    /\ tripTelemetry = <<>>
    /\ batches = <<>>
    /\ jobs = <<>> /\ jobsClosed = FALSE
    /\ results = <<>> /\ resultsClosed = FALSE
    /\ wg = 0 /\ spawned = 0
    /\ producer = "off" /\ sent = 0
    /\ closer = "off"
    /\ workers = [w \in Workers |-> IdleWorker("off")]
    /\ processingErrors = <<>>
    /\ taken = <<>> /\ outcomes = <<>> /\ collected = 0
    /\ tripResult = <<>>
    /\ maintCalls = 0 /\ maintError = "none" /\ resolved = <<>> /\ ingested = <<>>
    /\ registered = <<>>
    /\ maintTx = "none"
    /\ flags = ValidFlags /\ exit = NoExit
    /\ cell \in Texts /\ optional = NoOptional

ParseOptionalCells ==
    /\ pc = "parseCells"
    /\ optional' = [GnssAltitude |-> must(parseOptionalFloat(cell)),
                    ItcsNumberOfPassengers |-> must(parseOptionalInt(cell)),
                    ItcsStopName |-> must(parseOptionalString(cell))]
    /\ pc' = "parsedCells"
    /\ UNCHANGED <<ret, crashed, faults, metadata, regVars, telemetry, pool,
                   tripVars, chanVars, histVars, tripResult, maintCalls,
                   maintError, resolved, ingested, registered, maintTx,
                   mainVars, cell>>

ParseSpec == ParseInit /\ [][ParseOptionalCells]_vars

CallCreateTelemetryBatches ==
    /\ pc = "call"
    /\ batches' = createTelemetryBatches(tripID, tripTelemetry)
    /\ pc' = "called"
    /\ UNCHANGED <<ret, crashed, faults, metadata, regVars, telemetry, pool,
                   tripTelemetry, processingErrors, chanVars, histVars, tripResult, runHist>>

BatchSpec == BatchInit /\ [][CallCreateTelemetryBatches]_vars

RECURSIVE Flatten(_)
Flatten(bs) == IF bs = <<>> THEN <<>> ELSE Head(bs).Records \o Flatten(Tail(bs))

\* C1: the Records of the returned batches, concatenated in list order, are
\* exactly the input sequence (same rows, same order, none dropped, none twice).
C1_BatchesPartitionInput ==
    pc = "called" => Flatten(batches) = tripTelemetry

C1_Witness ==
    /\ pc = "called"
    /\ Len(tripTelemetry) = 2 * BatchSize + 1
    /\ Len(batches) = 3
    /\ Flatten(batches) = tripTelemetry

\* C2: N rows and chunk size C give ceil(N / C) batches; every batch but the
\* last has exactly C rows and the last has between 1 and C rows.
C2_BatchCountAndSizes ==
    pc = "called" =>
        LET N == Len(tripTelemetry)
            k == Len(batches)
        IN /\ k * BatchSize >= N
           /\ k > 0 => (k - 1) * BatchSize < N
           /\ \A i \in 1..k :
                /\ i < k => Len(batches[i].Records) = BatchSize
                /\ i = k => Len(batches[i].Records) \in 1..BatchSize

C2_Witness ==
    /\ pc = "called"
    /\ Len(tripTelemetry) = 2 * BatchSize + 1
    /\ [i \in 1..Len(batches) |-> Len(batches[i].Records)] = <<BatchSize, BatchSize, 1>>

\* C3: the batches carry the numbers 1..k in list order, TotalBatches = k and
\* the given trip id; the boundaries and numbers are fixed by the length of
\* the input alone (any other input of that length is chunked alike).
C3_BatchNumbering ==
    pc = "called" =>
        /\ \A i \in 1..Len(batches) :
              /\ batches[i].BatchID = i
              /\ batches[i].TotalBatches = Len(batches)
              /\ batches[i].TripID = tripID
        /\ \A other \in BatchInputs :
              Len(other) = Len(tripTelemetry) =>
                 LET bs == createTelemetryBatches(0, other)
                 IN /\ Len(bs) = Len(batches)
                    /\ \A i \in 1..Len(bs) :
                          /\ Len(bs[i].Records) = Len(batches[i].Records)
                          /\ bs[i].BatchID = batches[i].BatchID
                          /\ bs[i].TotalBatches = batches[i].TotalBatches

C3_Witness ==
    /\ pc = "called"
    /\ tripID = 3
    /\ Len(tripTelemetry) = BatchSize + 1
    /\ batches[2].BatchID = 2 /\ batches[2].TotalBatches = 2 /\ batches[2].TripID = 3

(***************************************************************************)
(* Properties of the dispatch of one trip's batches.                       *)
(***************************************************************************)
Running == {"recv", "acquire", "begin", "lookup", "insert", "commit", "cleanup",
            "report", "unwinding"}
Live(w) == workers[w].pc \in Running
BatchIDs == DOMAIN taken
Failed(b) == outcomes[b] /= <<>> /\ outcomes[b][1] /= "nil"
Succeeded(b) == outcomes[b] = <<"nil">>
Dispatching == pc \in {"spawnWorkers", "spawnProducer", "spawnCloser", "collect"}
\* The current trip's results have all been read and its verdict produced.
VerdictGiven ==
    /\ idx > 0 /\ Len(tripResult) = idx
    /\ tripResult[idx] \in {"success", "failure"}

RECURSIVE SumLen(_, _)
SumLen(f, S) ==
    IF S = {} THEN 0
    ELSE LET x == CHOOSE y \in S : TRUE IN Len(f[x]) + SumLen(f, S \ {x})

\* C4: every batch is received from the job queue exactly once, by one
\* worker, and reports exactly one outcome; when the results channel is
\* closed all k outcomes have been sent, and the collector ends with k.
C4_EachBatchOnce ==
    /\ \A b \in BatchIDs : taken[b] <= 1 /\ Len(outcomes[b]) <= taken[b]
    /\ \A v, w \in Workers :
          (v /= w /\ Live(v) /\ Live(w) /\ workers[v].batch /= NoBatch)
             => workers[v].batch /= workers[w].batch
    /\ collected + Len(results) = SumLen(outcomes, BatchIDs)
    /\ resultsClosed =>
          /\ \A b \in BatchIDs : taken[b] = 1 /\ Len(outcomes[b]) = 1
          /\ collected + Len(results) = Len(batches)
    /\ VerdictGiven => collected = Len(batches)

C4_Witness ==
    /\ VerdictGiven
    /\ Len(batches) = 2
    /\ collected = 2
    /\ resultsClosed
    /\ taken = <<1, 1>>

\* C5: the trip's verdict is failure (runCLI returns the error for that
\* trip) exactly when at least one of its batches reported a failure,
\* whatever the other batches reported and in whatever order.
C5_AnyFailureFailsTrip ==
    VerdictGiven =>
        /\ tripResult[idx] = "failure" <=> \E b \in BatchIDs : Failed(b)
        /\ tripResult[idx] = "success" <=> \A b \in BatchIDs : Succeeded(b)
        /\ tripResult[idx] = "failure" =>
              /\ pc = "returned"
              /\ ret.kind = "telemetry"
              /\ ret.trip = m.Name

C5_Witness ==
    /\ VerdictGiven
    /\ tripResult[idx] = "failure"
    /\ Len(batches) = 2
    /\ Failed(1) /\ Succeeded(2)
    /\ ret.err.BatchID = 1

\* C6: a failed batch stops neither its worker nor the others: a worker
\* leaves its loop only when the job queue is closed and empty, and when
\* the verdict of a trip with a failed batch is produced every batch of the
\* trip has been received and has reported its own outcome.
C6_FailureIsolated ==
    /\ ~crashed =>
          \A w \in Workers :
             (w <= spawned /\ ~Live(w)) => (jobsClosed /\ jobs = <<>>)
    /\ (VerdictGiven /\ \E b \in BatchIDs : Failed(b)) =>
          \A b \in BatchIDs : taken[b] = 1 /\ Len(outcomes[b]) = 1

C6_Witness ==
    /\ Len(batches) = 2
    /\ Failed(1)
    /\ \E w \in Workers : workers[w].pc = "commit" /\ workers[w].batch.BatchID = 2

\* The committed telemetry rows of one sample of one trip.
Visible(trip, t) ==
    LET rows == {r \in BagToSet(telemetry) : r.trip_id = trip /\ r.time = t}
    IN BagCardinality([r \in rows |-> telemetry[r]])

AllVisible(batch) ==
    \A i \in 1..Len(batch.Records) :
        Visible(batch.TripID, batch.Records[i].TimeUnix) = 1
NoneVisible(batch) ==
    \A i \in 1..Len(batch.Records) :
        Visible(batch.TripID, batch.Records[i].TimeUnix) = 0

BeforeCommit == {"acquire", "begin", "lookup", "norows", "insert"}

\* C7: of every batch either all rows are committed or none; a batch that
\* failed before its commit has none, a batch reported successful has all.
C7_BatchAtomic ==
    \A i \in 1..Len(batches) :
        /\ AllVisible(batches[i]) \/ NoneVisible(batches[i])
        /\ (i \in BatchIDs /\ Succeeded(i)) => AllVisible(batches[i])
        /\ (i \in BatchIDs /\ Failed(i) /\ outcomes[i][1] \in BeforeCommit)
              => NoneVisible(batches[i])

C7_Witness ==
    /\ Len(batches) = 2
    /\ Len(batches[1].Records) = 2
    /\ outcomes[1] = <<"insert">> /\ NoneVisible(batches[1])
    /\ Succeeded(2) /\ AllVisible(batches[2])

TripCommitted(trip) == \E r \in store.trips : r.id = trip

\* C8: no batch is queued and no worker runs for a trip whose row is not
\* yet committed, so a worker's route lookup never misses the trip row.
C8_TripCommittedFirst ==
    /\ (producer = "sending" \/ jobs /= <<>> \/ \E w \in Workers : Live(w))
          => (tx.open = FALSE /\ TripCommitted(tripID))
    /\ \A i \in 1..Len(jobs) : TripCommitted(jobs[i].TripID)
    /\ \A w \in Workers :
          /\ workers[w].batch /= NoBatch => TripCommitted(workers[w].batch.TripID)
          /\ workers[w].err /= "norows"
    /\ \A b \in BatchIDs : outcomes[b] /= <<"norows">>

C8_Witness ==
    /\ \E w \in Workers :
          /\ workers[w].pc = "insert"
          /\ workers[w].routeID = routeID
          /\ workers[w].batch.TripID = tripID
    /\ \E r \in store.trips : r.id = tripID /\ r.name = m.Name
    /\ idx = 2

Held == {c \in Conns : pool[c] /= Free}
HeldBy(owner) == {c \in Conns : pool[c] = owner}
WorkerHeld == {c \in Conns : pool[c] \in Workers}

\* C9: connections checked out never exceed the pool maximum, telemetry
\* workers hold at most one each (at most WorkerCount together), and an
\* acquiring worker or orchestrator always finds an idle connection.
C9_PoolBudget ==
    /\ Cardinality(Held) <= MaxConns
    /\ Cardinality(Held) <= WorkerCount + 1
    /\ Cardinality(WorkerHeld) <= WorkerCount
    /\ Cardinality(HeldBy(MainOwner)) <= 1
    /\ Cardinality(HeldBy(MaintOwner)) <= 1
    /\ \A w \in Workers :
          /\ Cardinality(HeldBy(w)) <= 1
          /\ HeldBy(w) = IF workers[w].conn = 0 THEN {} ELSE {workers[w].conn}
          /\ workers[w].pc = "acquire" => HasFree(pool)
    /\ pc \in {"acquireTripConn", "maintAcquire"} => HasFree(pool)

C9_Witness ==
    /\ Cardinality(WorkerHeld) = WorkerCount
    /\ Cardinality(HeldBy(MainOwner)) = 1
    /\ Cardinality(Held) = WorkerCount + 1

\* C10: outside the dispatch of the current trip (registration of a trip,
\* batching, maintenance, or after the return) nothing of an earlier trip
\* is left: no worker runs, no batch is queued or in flight, the helper
\* goroutines have ended and every outcome has been collected.
C10_DrainedBetweenTrips ==
    ~Dispatching =>
        /\ \A w \in Workers : ~Live(w) /\ workers[w].batch = NoBatch
        /\ jobs = <<>> /\ results = <<>>
        /\ producer \in {"off", "done"} /\ closer \in {"off", "done"}
        /\ wg = 0
        /\ collected = Len(batches)
        /\ \A b \in BatchIDs : Len(outcomes[b]) = 1
        /\ Cardinality(WorkerHeld) = 0

C10_Witness ==
    /\ pc = "createTrip"
    /\ idx = 2
    /\ tripResult = <<"success">>
    /\ collected = 2
    /\ \A w \in Workers : workers[w].pc = "exited"

(***************************************************************************)
(* Properties of a whole run: maintenance, reference resolution, trips.    *)
(***************************************************************************)
\* Every trip of the metadata has been processed and none reported a failure.
CleanTrips ==
    /\ Len(tripResult) = idx
    /\ \A i \in 1..idx : tripResult[i] \in {"success", "empty"}

\* C11 (as stated): a run whose trips have all been processed, successfully
\* or with reported batch failures, has invoked partition maintenance
\* exactly once by the time it returns.
C11_MaintenanceOnceAlways ==
    (pc = "returned" /\ idx > 0 /\ Len(tripResult) = idx
        /\ ret.kind \notin {"maintAcquire", "maintBegin"}) => maintCalls = 1

\* C11 (amended): partition maintenance is invoked at most once, and only
\* after every trip has been processed without a reported batch failure; a
\* run that returns success has invoked it exactly once, and a run in which
\* a trip reported a batch failure never invokes it.
C11_MaintenanceAfterCleanTrips ==
    /\ maintCalls <= 1
    /\ pc \in {"maintAcquire", "maintBegin", "maintCall"} =>
          (CleanTrips /\ maintCalls = 0)
    /\ maintCalls = 1 =>
          (pc = "returned" /\ CleanTrips /\ ret.kind \in {"nil", "makePartitions"})
    /\ (pc = "returned" /\ ret.kind = "nil") => maintCalls = 1
    /\ (\E i \in 1..Len(tripResult) : tripResult[i] = "failure") => maintCalls = 0

C11_Witness ==
    /\ pc = "returned" /\ ret = OkRet
    /\ maintCalls = 1
    /\ tripResult = <<"success", "empty">>

BusRows(number) == {r \in store.buses \cup tx.buses : r.bus_number = number}
RouteRows(code) == {r \in store.routes \cup tx.routes : r.route_code = code}
KeyRows(table, key) == IF table = "buses" THEN BusRows(key) ELSE RouteRows(key)

\* C12: two resolutions of the same bus number (or route code) return the
\* same id, in one registration (resolving again changes nothing and gives
\* the id already held) and across trips, and the key has exactly one row.
C12_ResolveIdempotent ==
    /\ \A i, j \in 1..Len(resolved) :
          (resolved[i].table = resolved[j].table /\ resolved[i].key = resolved[j].key)
             => resolved[i].id = resolved[j].id
    /\ pc /= "returned" =>
          \A i \in 1..Len(resolved) :
             /\ Cardinality(KeyRows(resolved[i].table, resolved[i].key)) = 1
             /\ \A r \in KeyRows(resolved[i].table, resolved[i].key) :
                   r.id = resolved[i].id
    /\ pc \in {"createRoute", "createTrip", "commit"} =>
          CreateBus(store, tx, m.BusNumber, seqs.buses + 1) = [id |-> busID, tx |-> tx]
    /\ pc \in {"createTrip", "commit"} =>
          CreateRoute(store, tx, m.BusRoute, seqs.routes + 1) = [id |-> routeID, tx |-> tx]

C12_Witness ==
    /\ pc = "createTrip" /\ idx = 2
    /\ Len(resolved) = 4
    /\ resolved[2] = resolved[4] /\ resolved[2].table = "bus_routes"
    /\ routeID = resolved[2].id /\ tx.routes = {}
    /\ Cardinality(store.routes) = 1
    /\ resolved[1] = [table |-> "buses", key |-> "B1", id |-> 1]
    /\ LoadedStore.buses \subseteq store.buses /\ Cardinality(store.trips) = 2
    /\ Cardinality(BusRows("B1")) = 1
    /\ resolved[3].key = "B2" /\ busID = resolved[3].id /\ busID /= resolved[1].id

\* C13: no two bus rows share a bus number and no two route rows share a
\* route code, whatever the target held at the start; once two trips with
\* the same bus number are ingested that number has exactly one bus row.
C13_NaturalKeysUnique ==
    /\ \A r, q \in store.buses \cup tx.buses : r.bus_number = q.bus_number => r = q
    /\ \A r, q \in store.routes \cup tx.routes : r.route_code = q.route_code => r = q
    /\ (Len(ingested) = 2 /\ metadata[1].BusNumber = metadata[2].BusNumber) =>
          Cardinality({r \in store.buses : r.bus_number = metadata[1].BusNumber}) = 1

C13_Witness ==
    /\ pc = "returned" /\ ret = OkRet
    /\ tripResult = <<"success", "success">>
    /\ metadata[1].BusNumber = metadata[2].BusNumber
    /\ Cardinality(store.buses) = 1 /\ Cardinality(store.trips) = 2

HasAbsentField(records) == \E i \in 1..Len(records) : records[i].GnssAltitude = Nil

StoredAltitudes(trip, t) ==
    {r.gnss_altitude : r \in {q \in BagToSet(telemetry) : q.trip_id = trip /\ q.time = t}}

\* C14: a batch holding a row whose optional field is absent is processed
\* without the process aborting, it reports its outcome, and when it is
\* stored the field of that row holds no-value.
C14_AbsentOptionalStored ==
    /\ \A w \in Workers :
          HasAbsentField(workers[w].batch.Records)
             => workers[w].pc \notin {"unwinding", "panicked"}
    /\ \A b \in BatchIDs :
          (HasAbsentField(batches[b].Records) /\ resultsClosed) => Len(outcomes[b]) = 1
    /\ \A b \in BatchIDs :
          Succeeded(b) =>
             \A i \in 1..Len(batches[b].Records) :
                StoredAltitudes(batches[b].TripID, batches[b].Records[i].TimeUnix)
                   = {batches[b].Records[i].GnssAltitude}

TripRows(name) == {r \in store.trips \cup tx.trips : r.name = name}

\* The committed telemetry rows that reference one trip id.
RowsOf(trip) ==
    LET rows == {r \in BagToSet(telemetry) : r.trip_id = trip}
    IN BagCardinality([r \in rows |-> telemetry[r]])

\* C15: a trip name has at most one trip row; registering a record whose
\* name already has a row fails at the trip insert and returns that error
\* with the store, the telemetry and the job queue untouched, and nothing
\* happens after the return.
C15_ExistingTripNameRejected ==
    /\ [](\A name \in TripNames : Cardinality(TripRows(name)) <= 1)
    /\ []((pc = "returned" /\ ret.kind = "createTrip") =>
             (Len(ingested) < idx /\ tx = NoTx /\ jobs = <<>>))
    /\ [][(pc = "createTrip" /\ TripRows(m.Name) /= {}) =>
             /\ pc' = "returned" /\ ret'.kind = "createTrip" /\ ret'.trip = m.Name
             /\ UNCHANGED <<store, telemetry, batches, jobs, workers, ingested>>]_vars
    /\ [][pc /= "returned"]_vars

C15_Witness ==
    /\ pc = "returned" /\ ret.kind = "createTrip"
    /\ idx = 2 /\ metadata[1].Name = metadata[2].Name
    /\ Cardinality(TripRows(m.Name)) = 1
    /\ seqs.trips = 2
    /\ tripResult = <<"success">>
    /\ RowsOf(1) = ingested[1].samples /\ RowsOf(2) = 0

\* C16: when runCLI returns success every trip of the metadata was parsed
\* and has exactly its parsed samples committed under its trip id, each
\* once; a run with a partially persisted trip does not return success.
C16_SuccessMeansAllPersisted ==
    /\ (pc = "returned" /\ ret.kind = "nil") =>
          /\ Len(ingested) = idx
          /\ \A i \in 1..idx :
                /\ \E r \in store.trips :
                      r.id = ingested[i].trip /\ r.name = metadata[i].Name
                /\ RowsOf(ingested[i].trip) = ingested[i].samples
                /\ \A t \in 1..ingested[i].samples : Visible(ingested[i].trip, t) = 1
    /\ (\E i \in 1..Len(ingested) : RowsOf(ingested[i].trip) < ingested[i].samples)
          => ~(pc = "returned" /\ ret.kind = "nil")

C16_Witness ==
    /\ pc = "returned" /\ ret.kind = "nil"
    /\ idx = 2
    /\ ingested[1].samples = BatchSize + 1 /\ ingested[2].samples = BatchSize
    /\ RowsOf(ingested[1].trip) = BatchSize + 1
    /\ RowsOf(ingested[2].trip) = BatchSize

\* C17: a failure a worker reports carries the number of the batch that
\* failed, the trip's batch count and the cause; the error runCLI returns
\* for the trip names the trip and carries one such failure.
C17_ErrorNamesBatch ==
    LET Describes(e) ==
            /\ e.BatchID \in BatchIDs
            /\ Failed(e.BatchID)
            /\ e.cause = outcomes[e.BatchID][1]
            /\ e.TotalBatches = Len(batches)
    IN /\ \A i \in 1..Len(results) : results[i] /= NilErr => Describes(results[i])
       /\ \A i \in 1..Len(processingErrors) : Describes(processingErrors[i])
       /\ (pc = "returned" /\ ret.kind = "telemetry") =>
             /\ ret.trip = m.Name
             /\ batches[ret.err.BatchID].TripID = tripID
             /\ Describes(ret.err)
       /\ (VerdictGiven /\ \E b \in BatchIDs : Failed(b)) =>
             (pc = "returned" /\ ret.kind = "telemetry")

C17_Witness ==
    /\ pc = "returned" /\ ret.kind = "telemetry"
    /\ idx = 2 /\ ret.trip = metadata[2].Name
    /\ ret.err = [cause |-> "insert", BatchID |-> 2, TotalBatches |-> 2]
    /\ Succeeded(1)

AfterLoop == {"maintAcquire", "maintBegin", "maintCall"}
MaintReturns == {"nil", "maintAcquire", "maintBegin", "makePartitions"}

\* C18: a trip whose file yields no rows gets no batch, no worker and no
\* telemetry row, keeps its committed trip row, and counts as processed
\* without a failure: the loop goes on to the next record (or ends).
C18_EmptyTripSkipped ==
    \A i \in 1..Len(ingested) :
        ingested[i].samples = 0 =>
            /\ Len(tripResult) >= i /\ tripResult[i] = "empty"
            /\ \E r \in store.trips :
                  r.id = ingested[i].trip /\ r.name = metadata[i].Name
            /\ RowsOf(ingested[i].trip) = 0
            /\ \A j \in 1..Len(batches) : batches[j].TripID /= ingested[i].trip
            /\ \A j \in 1..Len(jobs) : jobs[j].TripID /= ingested[i].trip
            /\ \A w \in Workers : workers[w].batch.TripID /= ingested[i].trip
            /\ i = idx =>
                  /\ pc \in {"loop", "returned"} \cup AfterLoop
                  /\ \A w \in Workers : ~Live(w)
                  /\ pc = "returned" => ret.kind \in MaintReturns

C18_Witness ==
    /\ idx = 2 /\ pc = "collect"
    /\ Len(ingested) = 2 /\ ingested[1].samples = 0 /\ ingested[2].samples > 0
    /\ tripResult = <<"empty">>
    /\ Cardinality(store.trips) = 2
    /\ RowsOf(ingested[1].trip) = 0 /\ RowsOf(ingested[2].trip) > 0

\* C19: once a trip has a failed batch and its results are collected the
\* run has returned that trip's failure: the failed trip is the last record
\* the loop reached, no further record is registered or dispatched.
C19_HaltAfterFailedTrip ==
    /\ \A i \in 1..Len(tripResult) :
          tripResult[i] = "failure" =>
             /\ i = idx /\ Len(ingested) = idx
             /\ pc = "returned" /\ ret.kind = "telemetry"
             /\ ret.trip = metadata[i].Name
    /\ ((\E b \in BatchIDs : Failed(b)) /\ ~Dispatching) =>
          /\ pc = "returned" /\ ret.kind = "telemetry"
          /\ tripResult[idx] = "failure"
          /\ \A r \in store.trips \cup tx.trips : r.id <= tripID
          /\ \A j \in 1..Len(batches) : batches[j].TripID = tripID

C19_Witness ==
    /\ pc = "returned" /\ ret.kind = "telemetry"
    /\ idx = 1 /\ idx < MaxTrips
    /\ tripResult = <<"failure">>
    /\ Cardinality(store.trips) = 1
    /\ Len(batches) = 2
    /\ Failed(2) /\ Succeeded(1)

\* C20: when the telemetry file of a trip cannot be parsed the error is
\* returned before any database work for that trip: at that moment the
\* store holds no trip row for it.
C20_InputErrorBeforeDatabaseWork ==
    (pc = "returned" /\ ret.kind = "parse") =>
        /\ ret.trip = m.Name
        /\ ~\E r \in store.trips : r.name = ret.trip

RegistrationErrors == {"createBus", "createRoute", "createTrip", "commit"}
IngestedTrips == {ingested[i].trip : i \in 1..Len(ingested)}

\* C21: when CreateBus, CreateRoute, CreateTrip or the commit of the trip
\* transaction fails, runCLI returns that error for the record; the record
\* is never parsed, no worker runs, no batch is built or queued for it and
\* no telemetry row exists that does not belong to an earlier trip.
C21_RegistrationFailureStopsTrip ==
    ret.kind \in RegistrationErrors =>
        /\ pc = "returned" /\ ret.trip = m.Name
        /\ Len(ingested) = idx - 1 /\ Len(tripResult) = idx - 1
        /\ \A w \in Workers : ~Live(w)
        /\ jobs = <<>> /\ results = <<>>
        /\ \A j \in 1..Len(batches) : batches[j].TripID \in IngestedTrips
        /\ \A r \in BagToSet(telemetry) : r.trip_id \in IngestedTrips

C21_Witness ==
    /\ pc = "returned" /\ ret.kind = "commit"
    /\ idx = 2 /\ ret.trip = metadata[2].Name
    /\ tripResult = <<"success">>
    /\ Cardinality(store.trips) = 1
    /\ \A j \in 1..Len(batches) : batches[j].TripID = 1
    /\ RowsOf(1) = ingested[1].samples /\ RowsOf(2) = 0

MaintErrors == {"maintAcquire", "maintBegin", "makePartitions"}

\* C22: a maintenance step that fails (acquire, begin or the call) makes
\* runCLI return that step's error, and no step of the maintenance phase,
\* failed or not, changes a committed bus, route, trip or telemetry row.
C22_MaintenanceFailureFrame ==
    /\ [](maintError /= "none" =>
             (pc = "returned" /\ ret.kind = maintError /\ ret.kind \in MaintErrors))
    /\ []((pc = "returned" /\ ret.kind = "nil") => maintError = "none")
    /\ [][(pc \in AfterLoop) => UNCHANGED <<store, telemetry>>]_vars

C22_Witness ==
    /\ pc = "returned" /\ maintError = "makePartitions" /\ ret.kind = "makePartitions"
    /\ maintCalls = 1
    /\ tripResult = <<"success", "success">>
    /\ Cardinality(store.trips) = 2 /\ Cardinality(store.buses) = 2
    /\ RowsOf(1) = ingested[1].samples /\ RowsOf(2) = ingested[2].samples
    /\ ingested[2].samples > 0

\* C23: while a trip's batches are being dispatched some process (producer,
\* worker, closer or collector) can always take a step, so the dispatch
\* cannot stop before the collector has produced the trip's verdict.
C23_DispatchNeverStuck ==
    Dispatching => ENABLED Next

BatchPaths == {"nil", "acquire", "begin", "norows", "lookup", "insert", "commit"}
InBatch == {"begin", "lookup", "insert", "commit", "cleanup", "unwinding"}

\* C24: whichever way the processing of a batch ended (success, or failure at
\* acquire, begin, route lookup, bulk insert or commit), a worker that is about
\* to report the outcome, or has reported it, holds no pooled connection and
\* has no open transaction; a connection a worker uses is checked out to that
\* worker alone from acquire to release, and a transaction is open only on a
\* held connection.
C24_ReleasedBeforeReport ==
    /\ \A w \in Workers :
          /\ workers[w].err \in BatchPaths
          /\ workers[w].pc \notin InBatch =>
                (workers[w].conn = 0 /\ ~workers[w].tx /\ HeldBy(w) = {})
          /\ workers[w].pc \in InBatch =>
                (workers[w].conn /= 0 /\ HeldBy(w) = {workers[w].conn})
          /\ workers[w].tx => workers[w].pc \in InBatch \ {"begin"}
    /\ \A v, w \in Workers :
          (v /= w /\ workers[v].conn /= 0) => workers[v].conn /= workers[w].conn
    /\ \A b \in BatchIDs : \A i \in 1..Len(outcomes[b]) : outcomes[b][i] \in BatchPaths

C24_Witness ==
    /\ workers[1].pc = "report" /\ workers[1].err = "insert"
    /\ workers[1].conn = 0 /\ ~workers[1].tx /\ HeldBy(1) = {}
    /\ workers[2].pc = "commit" /\ workers[2].tx /\ HeldBy(2) /= {}
    /\ Failed(1) = FALSE /\ outcomes[1] = <<>>

Dequeued == sent - Len(jobs)

Started == {w \in Workers : workers[w].pc /= "off"}

\* C26: the job queue never holds more than BufferSize batches; the workers
\* started for a trip are counted by spawned, never more than WorkerCount; and
\* once the start loop of a trip with at least one sample is over, exactly
\* WorkerCount workers have been started for it, however few batches it has.
C26_FixedWorkersBoundedQueue ==
    /\ Len(jobs) <= BufferSize
    /\ Cardinality(Started) = spawned /\ spawned <= WorkerCount
    /\ pc = "spawnWorkers" => spawned < WorkerCount
    /\ (pc \in {"spawnProducer", "spawnCloser", "collect"} \/ producer /= "off") =>
          (spawned = WorkerCount /\ batches /= <<>>)
    /\ (/\ ingested /= <<>>
        /\ ingested[Len(ingested)].samples > 0
        /\ pc \notin {"batch", "spawnWorkers"}) => spawned = WorkerCount

C26_Witness ==
    /\ pc = "collect" /\ Len(batches) = 1 /\ Len(batches) < WorkerCount
    /\ spawned = WorkerCount
    /\ \A w \in Workers : workers[w].pc = "recv"
    /\ Len(jobs) = BufferSize /\ sent = 1

RouteIDsOf(trip) == {r.itcs_bus_route_id : r \in {q \in BagToSet(telemetry) : q.trip_id = trip}}

\* C27: every committed telemetry row carries the id of a committed trip and
\* the route id of that trip's row, which is the id the trip's route code was
\* resolved to at registration; hence all rows of one trip carry one route id.
C27_RowsCarryTripRoute ==
    /\ \A t, u \in store.trips : t.id = u.id => t = u
    /\ \A r \in BagToSet(telemetry) :
          \E t \in store.trips : t.id = r.trip_id /\ t.route_id = r.itcs_bus_route_id
    /\ \A r, q \in BagToSet(telemetry) :
          r.trip_id = q.trip_id => r.itcs_bus_route_id = q.itcs_bus_route_id
    /\ \A i \in 1..Len(ingested) :
          /\ resolved[2 * i] = [table |-> "bus_routes", key |-> metadata[i].BusRoute,
                                id |-> resolved[2 * i].id]
          /\ RouteIDsOf(ingested[i].trip) \subseteq {resolved[2 * i].id}
          /\ \E t \in store.trips :
                /\ t.id = ingested[i].trip /\ t.name = metadata[i].Name
                /\ t.route_id = resolved[2 * i].id

C27_Witness ==
    /\ pc = "returned" /\ ret = OkRet
    /\ tripResult = <<"success", "success">>
    /\ metadata[2].BusRoute = "R2" /\ metadata[2].BusNumber = metadata[1].BusNumber
    /\ RowsOf(ingested[1].trip) = BatchSize + 1
    /\ RowsOf(ingested[2].trip) = BatchSize + 1
    /\ RouteIDsOf(ingested[1].trip) = {resolved[2].id}
    /\ RouteIDsOf(ingested[2].trip) = {resolved[4].id}
    /\ resolved[2].id /= resolved[4].id /\ resolved[4].id /= resolved[3].id

\* runCLI is registering the current record, or has returned from a failed step
\* of its registration.
Registering ==
    \/ pc \in {"beginTx", "createBus", "createRoute", "createTrip", "commit"}
    \/ pc = "returned" /\ ret.kind \in RegistrationErrors \cup {"beginTx"}

\* The number of metadata records whose registration has committed.
CommittedRecords == IF Registering THEN idx - 1 ELSE idx
CreatedTrips == {t \in store.trips : \E k \in 1..Len(registered) : registered[k] = t.id}

\* C28: the committed trip rows created by the run are as many as the metadata
\* records whose registration has committed, each such record has exactly one
\* row (its own id, its name), and the trips table changes only when a
\* registration commits, by exactly one new row.
C28_TripCreatedOncePerRecord ==
    /\ [](/\ Len(registered) = CommittedRecords
          /\ Cardinality(CreatedTrips) = CommittedRecords
          /\ \A j, k \in 1..Len(registered) : registered[j] = registered[k] => j = k
          /\ \A k \in 1..Len(registered) :
                /\ Cardinality({t \in store.trips : t.name = metadata[k].Name}) = 1
                /\ \E t \in store.trips : t.id = registered[k] /\ t.name = metadata[k].Name)
    /\ [][(store.trips /= store'.trips) =>
            /\ pc = "commit" /\ pc' = "parse"
            /\ store.trips \subseteq store'.trips
            /\ Cardinality(store'.trips) = Cardinality(store.trips) + 1
            /\ Len(registered') = Len(registered) + 1]_vars

C28_Witness ==
    /\ pc = "parse" /\ idx = 2
    /\ registered = <<1, 2>> /\ CommittedRecords = 2
    /\ CreatedTrips = store.trips /\ Cardinality(store.trips) = 2
    /\ metadata[1].Name /= metadata[2].Name

\* C29: the error runCLI returns for a trip is the first failure the collector
\* received from the results channel: the first failure read becomes the head
\* of processingErrors, later reads never replace it, and the returned error is
\* that head, the error of one of the trip's failed batches.  (It need not be
\* the failed batch with the lowest number: see the witness.)
C29_FirstReceivedFailureSurfaced ==
    /\ []((pc = "returned" /\ ret.kind = "telemetry") =>
             /\ processingErrors /= <<>> /\ ret.err = processingErrors[1]
             /\ ret.trip = m.Name
             /\ ret.err.BatchID \in BatchIDs /\ Failed(ret.err.BatchID)
             /\ ret.err = BatchErr(batches[ret.err.BatchID],
                                   outcomes[ret.err.BatchID][1]))
    /\ [][(collected' = collected + 1) =>
            /\ results /= <<>> /\ results' = Tail(results)
            /\ IF processingErrors = <<>>
               THEN processingErrors' =
                       IF Head(results).cause /= "nil" THEN <<Head(results)>> ELSE <<>>
               ELSE processingErrors'[1] = processingErrors[1]]_vars
    /\ [][(processingErrors /= <<>> /\ processingErrors' /= <<>>) =>
            processingErrors'[1] = processingErrors[1]]_vars

C29_Witness ==
    /\ pc = "returned" /\ ret.kind = "telemetry"
    /\ Len(batches) = 2 /\ Failed(1) /\ Failed(2)
    /\ ret.err.BatchID = 2
    /\ Len(processingErrors) = 2 /\ processingErrors[2].BatchID = 1

\* C30: a committed telemetry row is never removed again, neither by the
\* failure of another batch of its trip nor by runCLI reporting that failure:
\* when runCLI has returned the error of a failed batch, every batch of the
\* trip that was reported successful still has all its rows visible.
C30_CommittedBatchesStay ==
    /\ []((pc = "returned" /\ ret.kind = "telemetry") =>
             /\ \E b \in BatchIDs : Failed(b)
             /\ \A b \in BatchIDs : Succeeded(b) => AllVisible(batches[b]))
    /\ [][\A r \in BagToSet(telemetry) :
             r \in BagToSet(telemetry') /\ telemetry'[r] >= telemetry[r]]_vars

C30_Witness ==
    /\ pc = "returned" /\ ret.kind = "telemetry"
    /\ Len(batches) = 2
    /\ Succeeded(1) /\ AllVisible(batches[1])
    /\ Failed(2) /\ NoneVisible(batches[2])
    /\ RowsOf(tripID) = BatchSize /\ RowsOf(tripID) < ingested[idx].samples

TripBag(trip) ==
    LET rows == {r \in BagToSet(telemetry) : r.trip_id = trip}
    IN [r \in rows |-> telemetry[r]]

\* The rows a trip's file yields, as a function of the input alone.
ExpectedRows(trip, rows, route) ==
    SeqToBag([i \in 1..Len(rows) |-> InsertTelemetryParams(trip, rows[i], route)])

AllSucceeded ==
    /\ batches /= <<>> /\ batches[1].TripID = tripID
    /\ \A b \in BatchIDs : Succeeded(b)

\* C31: when every batch of a trip has succeeded, the committed rows of the
\* trip are exactly the rows of its file with the route id of its trip row,
\* and the verdict is success: both are functions of the input, whatever the
\* interleaving.  The rows a worker writes are built from its batch and the
\* trip row only, and a commit adds them to whatever is already stored.
C31_OutcomeIndependentOfInterleaving ==
    /\ [](AllSucceeded =>
             /\ TripBag(tripID) =
                   ExpectedRows(tripID, tripTelemetry,
                                GetBusRouteIdFromTripId(store, tripID))
             /\ processingErrors = <<>>
             /\ Len(tripResult) = idx => tripResult[idx] = "success")
    /\ [][\A w \in Workers :
            (workers[w].pc = "insert" /\ workers'[w].pc = "commit") =>
               workers'[w].params =
                  BuildParams(workers[w].batch,
                              GetBusRouteIdFromTripId(store, workers[w].batch.TripID))]_vars
    /\ [][(telemetry' /= telemetry) =>
            \E w \in Workers :
               /\ workers[w].pc = "commit" /\ workers'[w].pc = "cleanup"
               /\ telemetry' = telemetry (+) SeqToBag(workers[w].params)]_vars

C31_Witness ==
    /\ AllSucceeded /\ Len(batches) = 2
    /\ VerdictGiven /\ tripResult[idx] = "success" /\ pc = "loop"
    /\ idx = 2 /\ metadata[2].BusRoute = "R2"
    /\ BagCardinality(TripBag(tripID)) = BatchSize + 1
    /\ TripBag(tripID) = ExpectedRows(tripID, tripTelemetry, 2)

\* C32: the jobs channel is closed only by the producer after its last send
\* and the results channel only by the closer after every worker has exited;
\* each stays closed (is not closed again) until the next trip makes new
\* channels, both are closed when the verdict is given, and nothing is ever
\* appended to a closed channel, so no worker panics on a send.
C32_ChannelProtocol ==
    /\ [](/\ jobsClosed <=> producer = "done"
          /\ jobsClosed => sent = Len(batches)
          /\ resultsClosed <=> closer = "done"
          /\ resultsClosed =>
                /\ jobsClosed /\ jobs = <<>> /\ wg = 0 /\ spawned = WorkerCount
                /\ \A w \in Workers : workers[w].pc = "exited"
          /\ (Len(tripResult) = idx /\ idx > 0
                /\ tripResult[idx] \in {"success", "failure"}) =>
                (jobsClosed /\ resultsClosed)
          /\ \A w \in Workers :
                workers[w].pc = "panicked" => DerefPanics(workers[w].batch.Records))
    /\ [][/\ (~jobsClosed /\ jobsClosed') =>
               (producer = "sending" /\ sent = Len(batches) /\ jobs' = jobs)
          /\ (~resultsClosed /\ resultsClosed') =>
               (closer = "waiting" /\ results' = results
                /\ \A w \in Workers : workers[w].pc = "exited")
          /\ (jobsClosed /\ ~jobsClosed') => pc = "batch"
          /\ (resultsClosed /\ ~resultsClosed') => pc = "batch"
          /\ (Len(jobs') > Len(jobs)) => (~jobsClosed /\ ~jobsClosed')
          /\ (Len(results') > Len(results)) => (~resultsClosed /\ ~resultsClosed')]_vars

C32_Witness ==
    /\ pc = "collect" /\ jobsClosed /\ resultsClosed
    /\ Len(batches) = 2 /\ sent = 2 /\ Len(results) = 2
    /\ \A w \in Workers : workers[w].pc = "exited"
    /\ Failed(1) /\ Succeeded(2)

Reported == SumLen(outcomes, BatchIDs)

\* C33: the results channel never holds more outcomes than the trip has
\* batches, a batch produces at most one outcome, the outcomes buffered and
\* collected are the outcomes reported, and a worker about to report always
\* finds room in the channel, so reporting never blocks.
C33_ReportNeverBlocks ==
    [](/\ Len(results) <= Len(batches)
       /\ \A b \in BatchIDs : Len(outcomes[b]) <= 1
       /\ Len(results) + collected = Reported
       /\ \A w \in Workers :
             (workers[w].pc = "report" /\ ~crashed) =>
                (~resultsClosed /\ Len(results) < Len(batches)
                 /\ ENABLED WorkerReport(w)))

C33_Witness ==
    /\ Len(batches) = 2 /\ collected = 0
    /\ Len(results) = 1 /\ Len(results) >= BufferSize
    /\ \E w \in Workers : workers[w].pc = "report" /\ workers[w].batch.BatchID = 2
    /\ pc = "spawnCloser"

StatementErrors == {"createBus", "createRoute", "createTrip"}

\* C34: the bus upsert, the route upsert and the trip insert of a record write
\* into one transaction; the committed store changes only when that
\* transaction commits, by the rows it holds; a step of the registration that
\* fails returns with the store unchanged and the transaction's rows
\* discarded, so a bus or route row created in the attempt is not persisted.
C34_RegistrationAtomic ==
    /\ [][(store' /= store) =>
            /\ pc = "commit" /\ pc' = "parse"
            /\ store' = CommitTx(store, tx)]_vars
    /\ [][(pc \in StatementErrors /\ pc' = "returned") =>
            /\ ret'.kind = pc /\ store' = store /\ tx' = NoTx
            /\ \A r \in tx.buses \cup tx.routes \cup tx.trips :
                  r \notin store'.buses \cup store'.routes \cup store'.trips]_vars
    /\ [](/\ (pc \in {"createBus", "createRoute", "createTrip", "commit"}) => tx.open
          /\ (pc = "returned" /\ ret.kind \in StatementErrors) =>
                (tx = NoTx /\ Len(registered) = idx - 1))

C34_Witness ==
    /\ pc = "returned" /\ ret.kind = "createTrip"
    /\ idx = 2 /\ Len(resolved) = 4
    /\ resolved[3] = [table |-> "buses", key |-> "B2", id |-> 2]
    /\ BusRows("B2") = {} /\ Cardinality(store.buses) = 1
    /\ seqs.buses = 2 /\ tx = NoTx /\ Cardinality(store.trips) = 1

\* The run started on a target that an earlier run over the same metadata
\* has registered the first record's trip in, and has committed nothing yet.
Rerun ==
    /\ idx >= 1 /\ registered = <<>>
    /\ \E r \in store.trips : r.name = metadata[1].Name

\* C35: a run over metadata whose first trip an earlier run has registered
\* never gets past the trip insert of that record: it returns a registration
\* error of the first record (the trip insert's, unless an earlier statement
\* failed), no batch is built or dispatched, no worker is started, and the
\* target keeps exactly the rows it had: no trip, bus, route or telemetry row
\* is added, so missing batches of the trip are not inserted.
C35_RerunStopsAtRegisteredTrip ==
    /\ [](Rerun =>
             /\ idx = 1 /\ store = LoadedStore /\ telemetry = EmptyBag
             /\ pc \in {"beginTx", "createBus", "createRoute", "createTrip", "returned"}
             /\ pc = "returned" => ret.kind \in StatementErrors \cup {"beginTx"}
             /\ batches = <<>> /\ jobs = <<>> /\ spawned = 0 /\ ingested = <<>>
             /\ tx.trips = {})
    /\ [][(Rerun /\ pc = "createTrip") =>
            (pc' = "returned" /\ ret'.kind = "createTrip" /\ store' = store)]_vars

C35_Witness ==
    /\ Rerun /\ pc = "returned" /\ ret.kind = "createTrip"
    /\ ret.trip = "T1" /\ store = LoadedStore
    /\ seqs.trips = 2 /\ RowsOf(1) = 0 /\ tripResult = <<>>

\* C36: the maintenance transaction is never committed.  When runCLI returns
\* success the call was made once on that transaction and the transaction was
\* ended by the deferred rollback; the step that returns success is the call
\* itself, with no step in between.
C36_MaintenanceNeverCommitted ==
    /\ [](/\ maintTx /= "committed"
          /\ (pc = "returned" /\ ret.kind = "nil") =>
                (maintTx = "rolledBack" /\ maintCalls = 1 /\ tx = NoTx)
          /\ maintTx = "open" <=> pc = "maintCall"
          /\ pc = "maintCall" => (tx.open /\ maintCalls = 0))
    /\ [][(ret'.kind = "nil" /\ ret.kind /= "nil") =>
            (pc = "maintCall" /\ maintTx = "open" /\ maintTx' = "rolledBack"
             /\ maintCalls' = maintCalls + 1)]_vars

C36_Witness ==
    /\ pc = "returned" /\ ret = OkRet
    /\ maintTx = "rolledBack" /\ maintCalls = 1
    /\ tripResult = <<"success">> /\ HeldBy(MaintOwner) = {}

\* The ingestion has not run: no trip looked at, no row, no connection taken.
NotRun ==
    /\ ret = NoRet /\ metadata = <<>> /\ registered = <<>>
    /\ store \in InitStores /\ telemetry = EmptyBag
    /\ \A c \in Conns : pool[c] = Free
    /\ maintCalls = 0

\* C37: the process exits with status 1 exactly when the validation of the
\* flags fails, and then the ingestion has not run; when the validation passes
\* and runCLI returns, the process ends with status 0 whether runCLI returned
\* an error or not, and the error, if any, has been printed.
C37_ExitStatusOfMain ==
    /\ exit.status = 1 <=> (pc = "exited" /\ validateFlags(flags) /= "nil")
    /\ validateFlags(flags) /= "nil" =>
          (pc \in {"main", "exited"} /\ NotRun
           /\ (pc = "exited" => exit.printed = validateFlags(flags)))
    /\ (pc = "exited" /\ validateFlags(flags) = "nil") =>
          (/\ ret /= NoRet
           /\ exit.status = 0
           /\ exit.printed = (IF ret.kind = "nil" THEN "none" ELSE ret.kind))
    /\ exit.status = 0 => pc = "exited"

C37_Witness ==
    /\ pc = "exited" /\ exit = Exited(0, "telemetry")
    /\ ret.kind = "telemetry" /\ Len(registered) = 1

\* C38: each optional parser returns the nil pointer exactly for the empty
\* text; any other text gives a pointer, for a text column to the text
\* itself; and a text strconv rejects as malformed gives, its error being
\* dropped, a pointer to 0.  (A well-formed numeral beyond the range of
\* float64 gives a pointer to an infinity.)
C38_OptionalAbsentIffEmpty ==
    pc = "parsedCells" =>
        /\ \A f \in DOMAIN optional : optional[f] = NilPtr <=> cell = <<>>
        /\ cell /= <<>> =>
              /\ optional.ItcsStopName = Ptr(cell)
              /\ ParseFloat(cell)[2] = "ErrSyntax" =>
                    optional.GnssAltitude = Ptr(Zero(FALSE))
              /\ ParseFloat(cell)[2] = "ErrRange" =>
                    (Len(optional.GnssAltitude) = 1
                     /\ optional.GnssAltitude[1].class = "inf")
              /\ Atoi(cell)[2] = "ErrSyntax" => optional.ItcsNumberOfPassengers = Ptr(0)
              /\ (\E i \in 1..Len(cell) : cell[i] = "a") =>
                    (ParseFloat(cell)[2] = "ErrSyntax" /\ Atoi(cell)[2] = "ErrSyntax")

C38_Witness ==
    /\ pc = "parsedCells" /\ cell = <<"9", "a">>
    /\ optional = [GnssAltitude |-> Ptr(Zero(FALSE)),
                   ItcsNumberOfPassengers |-> Ptr(0),
                   ItcsStopName |-> Ptr(<<"9", "a">>)]

====
